---- MODULE Spec2Model ----
(***************************************************************************)
(* A model of esitool's binary codec (src/esitool.py): the Esi image model *)
(* with its preamble, stdconfig, catalogs and string table, the decoder    *)
(* Esi.binRead, the encoder Esi.binWrite, document import Esi.xmlRead and  *)
(* the string interning of Base.stringSet.                                 *)
(*                                                                         *)
(* Bytes are naturals 0..255, byte strings and texts are sequences of      *)
(* them (texts are ASCII, so str.encode and bytes.decode keep the codes).  *)
(* Python offsets are 0-based; the slice operators below translate them.   *)
(* A Python exception (struct.error, IndexError) is the value Err: a       *)
(* reader that raises yields Err, and an operation that meets Err fails.   *)
(***************************************************************************)
EXTENDS Integers, Sequences, FiniteSets, TLC

\* ------------------------------------------------------------------ bounds
\* Largest number of Fmmu elements of an imported document.
MaxFmmu == 3
\* Largest number of Entry elements of an imported RxPdo/TxPdo element.
MaxEntries == 2
\* Largest number of catalog frames of a decoded buffer.
MaxFrames == 2
\* Largest number of stringSet calls made on one model after it is built.
MaxInterns == 3

\* ------------------------------------------------------------- sequences
Err == 0 - 1

Min(a, b) == IF a < b THEN a ELSE b

Range(s) == {s[i] : i \in 1..Len(s)}

\* Python s[lo:hi] for 0 <= lo: the elements at 0-based places lo..hi-1
\* that exist.
Slice(s, lo, hi) == SubSeq(s, lo + 1, Min(hi, Len(s)))

Zeros(n) == [i \in 1..n |-> 0]

RECURSIVE Flatten(_)
Flatten(ss) == IF ss = <<>> THEN <<>> ELSE Head(ss) \o Flatten(Tail(ss))

\* list.index(x): the 0-based place of the first element equal to x.
IndexOf(s, x) == (CHOOSE i \in 1..Len(s) : s[i] = x /\ \A j \in 1..(i - 1) : s[j] # x) - 1

RECURSIVE BitXor(_, _)
BitXor(a, b) ==
    IF a = 0 THEN b
    ELSE IF b = 0 THEN a
    ELSE (((a % 2) + (b % 2)) % 2) + 2 * BitXor(a \div 2, b \div 2)

RECURSIVE BitOr(_, _)
BitOr(a, b) ==
    IF a = 0 THEN b
    ELSE IF b = 0 THEN a
    ELSE (IF (a % 2) + (b % 2) > 0 THEN 1 ELSE 0) + 2 * BitOr(a \div 2, b \div 2)

RECURSIVE Pow(_, _)
Pow(b, n) == IF n = 0 THEN 1 ELSE b * Pow(b, n - 1)

\* str(n) of a natural n: its decimal digits as character codes.
RECURSIVE Str(_)
Str(n) == IF n < 10 THEN <<48 + n>> ELSE Str(n \div 10) \o <<48 + (n % 10)>>

\* -------------------------------------------------------------- Base
\* struct.pack("<B" | "<H" | "<I", value): little-endian bytes; struct.error
\* (Err in the byte list) when the value does not fit the width. The
\* integers of the model are below 2^31, so the inputs keep the top bit of
\* a 4-byte field clear and every value that is not negative fits 4 bytes.
binVarWrite(value, size) ==
    LET w == IF size = 2 THEN 2 ELSE IF size = 4 THEN 4 ELSE 1
    IN  IF value < 0 \/ (w < 4 /\ value >= Pow(256, w)) THEN <<Err>>
        ELSE [i \in 1..w |-> (value \div Pow(256, i - 1)) % 256]

\* struct.unpack of bindata[offset : offset + size]: struct.error (Err) when
\* the slice is shorter than the width.
binVarRead(bindata, offset, size) ==
    LET w == IF size = 2 THEN 2 ELSE IF size = 4 THEN 4 ELSE 1
        s == Slice(bindata, offset, offset + size)
    IN  IF Len(s) # w THEN Err
        ELSE IF w = 1 THEN s[1]
        ELSE IF w = 2 THEN s[1] + 256 * s[2]
        ELSE s[1] + 256 * s[2] + 65536 * s[3] + 16777216 * s[4]

bytes2ee(value) == (value - 128) \div 128

\* str(text) of stringSet's argument: a value is a text or, when the
\* document lacks the element and the default 0 is taken, an integer.
TextOf(value) == IF value.int THEN Str(value.v) ELSE value.v

\* An interning that appends without looking the text up: not the code's.
stringSetTable_always(table, value) == Append(table, TextOf(value))

\* Base.stringSet on the table `table`: the table after the call.
stringSetTable(table, value) ==
    IF \E i \in 1..Len(table) : table[i] = TextOf(value)
    THEN table
    ELSE Append(table, TextOf(value))

\* An interning that returns the last index of the table: not the code's.
stringSet_last(table, value) == Len(stringSetTable(table, value)) - 1

\* Base.stringSet: the index returned.
stringSet(table, value) == IndexOf(stringSetTable(table, value), TextOf(value))

\* A resolution that wraps an index around the table: not the code's.
value2xmlText_wrap(table, value) == table[(value % Len(table)) + 1]

\* Base.value2xmlText against the table `table`.
value2xmlText(table, value) ==
    IF value < Len(table) THEN table[value + 1] ELSE Str(value)

\* ------------------------------------------------------------ preamble
PreambleSize == 16

\* The eight rounds of preamble.crc8byte, n of them left.
RECURSIVE crc8rounds(_, _)
crc8rounds(crc, n) ==
    IF n = 0 THEN crc
    ELSE IF (crc \div 128) % 2 = 1 THEN crc8rounds(BitXor(crc * 2, 7), n - 1)
    ELSE crc8rounds(crc * 2, n - 1)

\* A round function that never reduces the accumulator: not the code's.
crc8byte_nomod(crc, b) == crc8rounds(BitXor(crc, b), 8)

crc8byte(crc, b) == crc8rounds(BitXor(crc, b), 8) % 256

\* preamble.csum: the accumulator after each byte of bindata, from 255.
csum(bindata) ==
    LET acc[i \in 0..Len(bindata)] ==
            IF i = 0 THEN 255 ELSE crc8byte(acc[i - 1], bindata[i])
    IN  acc[Len(bindata)]

preamble_fields(p) ==
    binVarWrite(p.pdi_ctrl, 2) \o binVarWrite(p.pdi_conf, 2)
        \o binVarWrite(p.sync_impulse, 2) \o binVarWrite(p.pdi_conf2, 2)
        \o binVarWrite(p.alias, 2) \o binVarWrite(p.reserved1, 4)

\* A writer that keeps the checksum the object holds: not the code's.
preamble_checksum_stale(p) == p.checksum

\* preamble.binWrite: the checksum the call stores in the object.
preamble_checksum(p) ==
    IF Err \in Range(preamble_fields(p)) THEN Err
    ELSE csum(Slice(preamble_fields(p), 0, 14))

\* A writer that emits the checksum the object held before the call, and
\* stores the new one: not the code's.
preamble_binWrite_held(p) == preamble_fields(p) \o binVarWrite(p.checksum, 2)

preamble_binWrite(p) == preamble_fields(p) \o binVarWrite(preamble_checksum(p), 2)

\* Whether every named field of the record r was read without an exception.
FieldsOk(r, names) == \A f \in names : r[f] # Err

\* A preamble.binRead that raises when the checksum does not match: not
\* the code's.
preamble_binRead_strict(bindata) ==
    [ok  |-> csum(Slice(bindata, 0, 14)) = binVarRead(bindata, 14, 2),
     obj |-> [pdi_ctrl     |-> binVarRead(bindata, 0, 2),
              pdi_conf     |-> binVarRead(bindata, 2, 2),
              sync_impulse |-> binVarRead(bindata, 4, 2),
              pdi_conf2    |-> binVarRead(bindata, 6, 2),
              alias        |-> binVarRead(bindata, 8, 2),
              reserved1    |-> binVarRead(bindata, 10, 4),
              checksum     |-> binVarRead(bindata, 14, 2),
              csum_error   |-> FALSE,
              bindata      |-> bindata]]

\* preamble.binRead of the slice bindata; ok is FALSE when a read raises.
\* The field csum_error of the object tells that the "CSUM ERROR" diagnostic
\* was printed (the code sets the attribute checksum_ok with it).
preamble_binRead(bindata) ==
    LET p == [pdi_ctrl     |-> binVarRead(bindata, 0, 2),
              pdi_conf     |-> binVarRead(bindata, 2, 2),
              sync_impulse |-> binVarRead(bindata, 4, 2),
              pdi_conf2    |-> binVarRead(bindata, 6, 2),
              alias        |-> binVarRead(bindata, 8, 2),
              reserved1    |-> binVarRead(bindata, 10, 4),
              checksum     |-> binVarRead(bindata, 14, 2),
              csum_error   |-> csum(Slice(bindata, 0, 14)) # binVarRead(bindata, 14, 2),
              bindata      |-> bindata]
    IN  [ok |-> FieldsOk(p, {"pdi_ctrl", "pdi_conf", "sync_impulse", "pdi_conf2",
                             "alias", "reserved1", "checksum"}),
         obj |-> p]

\* preamble.xmlRead: every field 0, then the fields the ConfigData bytes of
\* the document cover, two bytes each.
preamble_xmlRead(configData) ==
    LET field(cpos) == IF Len(configData) >= cpos + 2
                       THEN binVarRead(configData, cpos, 2) ELSE 0
    IN  [pdi_ctrl     |-> field(0),
         pdi_conf     |-> field(2),
         sync_impulse |-> field(4),
         pdi_conf2    |-> field(6),
         alias        |-> field(8),
         reserved1    |-> 0,
         checksum     |-> 0,
         csum_error   |-> FALSE,
         bindata      |-> <<>>]

\* ------------------------------------------------------------ stdconfig
StdconfigSize == 112

stdconfig_binRead(bindata) ==
    LET c == [vendor_id           |-> binVarRead(bindata, 0, 4),
              product_id          |-> binVarRead(bindata, 4, 4),
              revision_id         |-> binVarRead(bindata, 8, 4),
              serial              |-> binVarRead(bindata, 12, 4),
              bs_rec_mbox_offset  |-> binVarRead(bindata, 24, 2),
              bs_rec_mbox_size    |-> binVarRead(bindata, 26, 2),
              bs_snd_mbox_offset  |-> binVarRead(bindata, 28, 2),
              bs_snd_mbox_size    |-> binVarRead(bindata, 30, 2),
              std_rec_mbox_offset |-> binVarRead(bindata, 32, 2),
              std_rec_mbox_size   |-> binVarRead(bindata, 34, 2),
              std_snd_mbox_offset |-> binVarRead(bindata, 36, 2),
              std_snd_mbox_size   |-> binVarRead(bindata, 38, 2),
              mailbox_protocol    |-> binVarRead(bindata, 40, 2),
              eeprom_size         |-> binVarRead(bindata, 108, 2),
              version             |-> binVarRead(bindata, 110, 2),
              bindata             |-> bindata]
    IN  [ok |-> FieldsOk(c, DOMAIN c \ {"bindata"}), obj |-> c]

stdconfig_binWrite(c) ==
    binVarWrite(c.vendor_id, 4) \o binVarWrite(c.product_id, 4)
        \o binVarWrite(c.revision_id, 4) \o binVarWrite(c.serial, 4)
        \o Zeros(8)
        \o binVarWrite(c.bs_rec_mbox_offset, 2) \o binVarWrite(c.bs_rec_mbox_size, 2)
        \o binVarWrite(c.bs_snd_mbox_offset, 2) \o binVarWrite(c.bs_snd_mbox_size, 2)
        \o binVarWrite(c.std_rec_mbox_offset, 2) \o binVarWrite(c.std_rec_mbox_size, 2)
        \o binVarWrite(c.std_snd_mbox_offset, 2) \o binVarWrite(c.std_snd_mbox_size, 2)
        \o binVarWrite(c.mailbox_protocol, 2)
        \o Zeros(66)
        \o binVarWrite(c.eeprom_size, 2) \o binVarWrite(c.version, 2)

\* The value of the last Sm element of the document named `name`, or 0.
RECURSIVE LastSm(_, _, _)
LastSm(sms, name, attr) ==
    IF sms = <<>> THEN 0
    ELSE IF sms[Len(sms)].text = name THEN sms[Len(sms)][attr]
    ELSE LastSm(SubSeq(sms, 1, Len(sms) - 1), name, attr)

\* stdconfig.xmlRead from the values of the document doc.
stdconfig_xmlRead(doc) ==
    [vendor_id           |-> doc.vendorId,
     product_id          |-> doc.productCode,
     revision_id         |-> doc.revisionNo,
     serial              |-> 0,
     bs_rec_mbox_offset  |-> IF doc.bootStrap = <<>> THEN 0 ELSE binVarRead(doc.bootStrap, 0, 2),
     bs_rec_mbox_size    |-> IF doc.bootStrap = <<>> THEN 0 ELSE binVarRead(doc.bootStrap, 2, 2),
     bs_snd_mbox_offset  |-> IF doc.bootStrap = <<>> THEN 0 ELSE binVarRead(doc.bootStrap, 4, 2),
     bs_snd_mbox_size    |-> IF doc.bootStrap = <<>> THEN 0 ELSE binVarRead(doc.bootStrap, 6, 2),
     std_rec_mbox_offset |-> LastSm(doc.sms, "MBoxOut", "StartAddress"),
     std_rec_mbox_size   |-> LastSm(doc.sms, "MBoxOut", "DefaultSize"),
     std_snd_mbox_offset |-> LastSm(doc.sms, "MBoxIn", "StartAddress"),
     std_snd_mbox_size   |-> LastSm(doc.sms, "MBoxIn", "DefaultSize"),
     mailbox_protocol    |-> BitOr(BitOr(IF "CoE" \in doc.mailbox THEN 4 ELSE 0,
                                         IF "EoE" \in doc.mailbox THEN 2 ELSE 0),
                                   BitOr(IF "FoE" \in doc.mailbox THEN 8 ELSE 0,
                                         IF "VoE" \in doc.mailbox THEN 32 ELSE 0)),
     eeprom_size         |-> IF doc.byteSize # 0 THEN bytes2ee(doc.byteSize) ELSE 0,
     version             |-> 1,
     bindata             |-> <<>>]

\* -------------------------------------------------------------- general
GeneralSize == 32

\* general.binRead of the slice bindata by an object whose table is sref.
general_binRead(bindata, sref) ==
    LET g == [kind             |-> "general",
              cat_type         |-> 30,
              strings          |-> sref,
              groupindex       |-> binVarRead(bindata, 0, 1),
              imageindex       |-> binVarRead(bindata, 1, 1),
              orderindex       |-> binVarRead(bindata, 2, 1),
              nameindex        |-> binVarRead(bindata, 3, 1),
              unknown1         |-> binVarRead(bindata, 4, 1),
              coe_details      |-> binVarRead(bindata, 5, 1),
              foe_details      |-> binVarRead(bindata, 6, 1),
              eoe_enabled      |-> binVarRead(bindata, 7, 1),
              soe_channels     |-> binVarRead(bindata, 8, 1),
              ds402_channels   |-> binVarRead(bindata, 9, 1),
              sysman_class     |-> binVarRead(bindata, 10, 1),
              flags            |-> binVarRead(bindata, 11, 1),
              current_ebus     |-> binVarRead(bindata, 12, 2),
              unknown2         |-> binVarRead(bindata, 14, 2),
              phys_port01      |-> binVarRead(bindata, 16, 1),
              phys_port23      |-> binVarRead(bindata, 17, 1),
              physical_address |-> binVarRead(bindata, 18, 2),
              bindata          |-> bindata]
    IN  [ok |-> FieldsOk(g, DOMAIN g \ {"kind", "strings", "bindata"}), obj |-> g]

general_binWrite(g) ==
    binVarWrite(g.groupindex, 1) \o binVarWrite(g.imageindex, 1)
        \o binVarWrite(g.orderindex, 1) \o binVarWrite(g.nameindex, 1)
        \o binVarWrite(g.unknown1, 1) \o binVarWrite(g.coe_details, 1)
        \o binVarWrite(g.foe_details, 1) \o binVarWrite(g.eoe_enabled, 1)
        \o binVarWrite(g.soe_channels, 1) \o binVarWrite(g.ds402_channels, 1)
        \o binVarWrite(g.sysman_class, 1) \o binVarWrite(g.flags, 1)
        \o binVarWrite(g.current_ebus, 2) \o binVarWrite(g.unknown2, 2)
        \o binVarWrite(g.phys_port01, 1) \o binVarWrite(g.phys_port23, 1)
        \o binVarWrite(g.physical_address, 2)
        \o Zeros(12)

\* The ports list general.xmlRead builds from the Physics attribute.
PhysicsPort(physics, cn) ==
    IF cn + 1 > Len(physics) THEN 0
    ELSE IF physics[cn + 1] = "Y" THEN 1
    ELSE IF physics[cn + 1] = "K" THEN 3
    ELSE 0

\* general.xmlRead: the object and the string table after its two
\* stringSet calls (group type, then device name).
general_xmlRead(doc, table, sref) ==
    LET t1 == stringSetTable(table, doc.groupType)
        t2 == stringSetTable(t1, doc.name)
    IN  [obj |-> [kind             |-> "general",
                  cat_type         |-> 30,
                  strings          |-> sref,
                  groupindex       |-> stringSet(table, doc.groupType),
                  imageindex       |-> 0,
                  orderindex       |-> 0,
                  nameindex        |-> stringSet(t1, doc.name),
                  unknown1         |-> 0,
                  coe_details      |-> IF "CoE" \in doc.mailbox
                                       THEN 1 + 2 * doc.coe.SdoInfo + 4 * doc.coe.PdoAssign
                                              + 8 * doc.coe.PdoConfig + 16 * doc.coe.PdoUpload
                                       ELSE 0,
                  foe_details      |-> IF "FoE" \in doc.mailbox THEN 1 ELSE 0,
                  eoe_enabled      |-> IF "EoE" \in doc.mailbox THEN 1 ELSE 0,
                  soe_channels     |-> 0,
                  ds402_channels   |-> 0,
                  sysman_class     |-> 0,
                  flags            |-> 0,
                  current_ebus     |-> 0,
                  unknown2         |-> 1,
                  phys_port01      |-> IF doc.physics = <<>> THEN 0
                                       ELSE 16 * PhysicsPort(doc.physics, 1) + PhysicsPort(doc.physics, 0),
                  phys_port23      |-> IF doc.physics = <<>> THEN 0
                                       ELSE 16 * PhysicsPort(doc.physics, 3) + PhysicsPort(doc.physics, 2),
                  physical_address |-> 0,
                  bindata          |-> <<>>],
         table |-> t2]

\* The length of the ports list of general.xmlRead and general.xmlWrite.
PortCount == 4

\* The ports list general.xmlWrite takes from phys_port01 and phys_port23.
general_xmlWrite_ports(g) ==
    <<(g.phys_port01 \div 16) % 16, g.phys_port01 % 16,
      (g.phys_port23 \div 16) % 16, g.phys_port23 % 16>>

\* The Physics attribute general.xmlWrite sets: "Y" for a port of 1, "K"
\* for a port of 3, nothing for any other port.
general_xmlWrite_Physics(g) ==
    Flatten([cn \in 1..PortCount |->
                 IF general_xmlWrite_ports(g)[cn] = 1 THEN <<"Y">>
                 ELSE IF general_xmlWrite_ports(g)[cn] = 3 THEN <<"K">>
                 ELSE <<>>])

\* The four ports general.Info shows.
general_Info_ports(g) ==
    <<g.phys_port01 % 16, (g.phys_port01 \div 16) % 16,
      g.phys_port23 % 16, (g.phys_port23 \div 16) % 16>>

\* ------------------------------------------------------------ pdo_entry
PdoEntrySize == 8

pdo_entry_binRead(bindata) ==
    [index        |-> binVarRead(bindata, 0, 2),
     subindex     |-> binVarRead(bindata, 2, 1),
     string_index |-> binVarRead(bindata, 3, 1),
     data_type    |-> binVarRead(bindata, 4, 1),
     bit_length   |-> binVarRead(bindata, 5, 1),
     flags        |-> binVarRead(bindata, 6, 2),
     bindata      |-> bindata]

pdo_entry_ok(e) ==
    FieldsOk(e, {"index", "subindex", "string_index", "data_type", "bit_length", "flags"})

pdo_entry_binWrite(e) ==
    binVarWrite(e.index, 2) \o binVarWrite(e.subindex, 1)
        \o binVarWrite(e.string_index, 1) \o binVarWrite(e.data_type, 1)
        \o binVarWrite(e.bit_length, 1) \o binVarWrite(e.flags, 2)

\* The codes of the datatypes dictionary, in its order.
datatypes ==
    << <<0, "UNDEF">>, <<1, "BOOL">>, <<2, "SINT">>, <<3, "INT">>, <<4, "DINT">>,
       <<5, "USINT">>, <<6, "UINT">>, <<7, "UDINT">>, <<8, "REAL">>, <<9, "STRING">>,
       <<10, "OF BYTE">>, <<11, "OF UINT">>, <<16, "INT24">>, <<17, "LREAL">>,
       <<18, "INT40">>, <<19, "INT48">>, <<20, "INT56">>, <<21, "INT64">>,
       <<22, "UINT24">>, <<24, "UINT40">>, <<25, "UINT48">>, <<26, "UINT56">>,
       <<27, "UINT64">> >>

\* str.replace of the three aliases, in the order of the calls, on a whole
\* type name (a name that only contains an alias is not among the inputs).
datatypeAlias(datatype) ==
    IF datatype \in {"UINT16", "UINT8", "UINT32"} THEN "UINT" ELSE datatype

\* Base.datatypeSet: the place of the name in list(datatypes.values()).
datatypeSet(datatype) ==
    IF \E i \in 1..Len(datatypes) : datatypes[i][2] = datatypeAlias(datatype)
    THEN (CHOOSE i \in 1..Len(datatypes) : datatypes[i][2] = datatypeAlias(datatype)) - 1
    ELSE 0

\* pdo_entry.xmlRead of one Entry element against the table `table`.
pdo_entry_xmlRead(entry, table) ==
    [index        |-> entry.index,
     subindex     |-> entry.subindex,
     string_index |-> stringSet(table, entry.name),
     data_type    |-> datatypeSet(entry.dataType),
     bit_length   |-> entry.bitLen,
     flags        |-> 0,
     bindata      |-> <<>>]

\* The text a PdoEntry e of the Pdo catalog pdo resolves its string index
\* to: the parent of the entry is the Pdo, and pdo.strings is the table the
\* Pdo took from the model when it was constructed.
pdo_entry_name(pdo, e, tbls) == value2xmlText(tbls[pdo.strings], e.string_index)

\* The text a Pdo catalog resolves its name index to: its parent is the
\* model, whose table is at the place esi_strings.
pdo_name(pdo, tbls, esi_strings) == value2xmlText(tbls[esi_strings], pdo.name_index)

\* ------------------------------------------------------- txpdo / rxpdo
PdoHeaderSize == 8

\* The loop of txpdo.binRead / rxpdo.binRead: an entry is read before the
\* remaining length is looked at.
RECURSIVE pdo_readEntries(_, _)
pdo_readEntries(bindata, offset) ==
    <<pdo_entry_binRead(Slice(bindata, offset, offset + PdoEntrySize))>>
        \o (IF Len(bindata) - (offset + PdoEntrySize) < PdoEntrySize THEN <<>>
            ELSE pdo_readEntries(bindata, offset + PdoEntrySize))

\* txpdo.binRead (kind "txpdo", cat_type 50) and rxpdo.binRead ("rxpdo", 51).
pdo_binRead(kind, cat_type, bindata, sref) ==
    LET p == [kind        |-> kind,
              cat_type    |-> cat_type,
              strings     |-> sref,
              index       |-> binVarRead(bindata, 0, 2),
              entries     |-> binVarRead(bindata, 2, 1),
              syncmanager |-> binVarRead(bindata, 3, 1),
              dcsync      |-> binVarRead(bindata, 4, 1),
              name_index  |-> binVarRead(bindata, 5, 1),
              flags       |-> binVarRead(bindata, 6, 2),
              entrys      |-> pdo_readEntries(bindata, PdoHeaderSize),
              bindata     |-> bindata]
    IN  [ok |-> /\ FieldsOk(p, {"index", "entries", "syncmanager", "dcsync",
                                "name_index", "flags"})
                /\ \A i \in 1..Len(p.entrys) : pdo_entry_ok(p.entrys[i]),
         obj |-> p]

\* txpdo.binWrite with the count byte taken from the entries held.
pdo_binWrite_counted(p) ==
    binVarWrite(p.index, 2) \o binVarWrite(Len(p.entrys), 1)
        \o binVarWrite(p.syncmanager, 1) \o binVarWrite(p.dcsync, 1)
        \o binVarWrite(p.name_index, 1) \o binVarWrite(p.flags, 2)
        \o Flatten([i \in 1..Len(p.entrys) |-> pdo_entry_binWrite(p.entrys[i])])

\* txpdo.binWrite and rxpdo.binWrite.
pdo_binWrite(p) ==
    binVarWrite(p.index, 2) \o binVarWrite(p.entries, 1)
        \o binVarWrite(p.syncmanager, 1) \o binVarWrite(p.dcsync, 1)
        \o binVarWrite(p.name_index, 1) \o binVarWrite(p.flags, 2)
        \o Flatten([i \in 1..Len(p.entrys) |-> pdo_entry_binWrite(p.entrys[i])])

\* The entries of txpdo.xmlRead / rxpdo.xmlRead and the table after each
\* entry's stringSet call.
RECURSIVE pdo_xmlEntries(_, _)
pdo_xmlEntries(entries, table) ==
    IF entries = <<>> THEN [entrys |-> <<>>, table |-> table]
    ELSE LET rest == pdo_xmlEntries(Tail(entries),
                                    stringSetTable(table, Head(entries).name))
         IN  [entrys |-> <<pdo_entry_xmlRead(Head(entries), table)>> \o rest.entrys,
              table  |-> rest.table]

\* txpdo.xmlRead / rxpdo.xmlRead of one TxPdo / RxPdo element.
pdo_xmlRead(kind, cat_type, pdo, table, sref) ==
    LET t1 == stringSetTable(table, pdo.name)
        es == pdo_xmlEntries(pdo.entries, t1)
    IN  [obj |-> [kind        |-> kind,
                  cat_type    |-> cat_type,
                  strings     |-> sref,
                  index       |-> pdo.index,
                  entries     |-> Len(pdo.entries),
                  syncmanager |-> pdo.sm,
                  dcsync      |-> 0,
                  name_index  |-> stringSet(table, pdo.name),
                  flags       |-> pdo.mandatory + 16 * pdo.fixed + 32 * pdo.virtual
                                      + 128 * pdo.overwrittenByModule,
                  entrys      |-> es.entrys,
                  bindata     |-> <<>>],
         table |-> es.table]

\* ----------------------------------------------------- fmmu / fmmu_entry
FmmuEntrySize == 1

\* An attribute that was never assigned.
Unset == 0 - 2

fmmu_entry_binRead(bindata) ==
    [usage |-> binVarRead(bindata, 0, 1), bindata |-> bindata]

fmmu_entry_binWrite(e) == binVarWrite(e.usage, 1)

fmmu_entry_xmlRead(text) ==
    [usage   |-> IF text = "Outputs" THEN 1
                 ELSE IF text = "Inputs" THEN 2
                 ELSE IF text = "MBoxState" THEN 3
                 ELSE 0,
     bindata |-> <<>>]

\* The loop of fmmu.binRead, entered with bytes left: one entry per byte
\* until no byte is left.
RECURSIVE fmmu_readEntries(_, _)
fmmu_readEntries(bindata, offset) ==
    <<fmmu_entry_binRead(Slice(bindata, offset, offset + FmmuEntrySize))>>
        \o (IF Len(bindata) - (offset + FmmuEntrySize) < FmmuEntrySize THEN <<>>
            ELSE fmmu_readEntries(bindata, offset + FmmuEntrySize))

fmmu_binRead(bindata, sref) ==
    LET es == IF Len(bindata) = 0 THEN <<>> ELSE fmmu_readEntries(bindata, 0)
        f  == [kind     |-> "fmmu",
               cat_type |-> 40,
               strings  |-> sref,
               entrys   |-> es,
               fill     |-> IF Len(es) % 2 # 0 THEN bindata[Len(bindata)] ELSE Unset,
               bindata  |-> bindata]
    IN  [ok |-> \A i \in 1..Len(es) : es[i].usage # Err, obj |-> f]

\* A writer that leaves an odd number of entry bytes unpadded: not the code's.
fmmu_binWrite_nopad(f) ==
    Flatten([i \in 1..Len(f.entrys) |-> fmmu_entry_binWrite(f.entrys[i])])

fmmu_binWrite(f) ==
    LET body == Flatten([i \in 1..Len(f.entrys) |-> fmmu_entry_binWrite(f.entrys[i])])
    IN  IF Len(body) % 2 # 0 THEN body \o <<0>> ELSE body

fmmu_xmlRead(doc, sref) ==
    [kind     |-> "fmmu",
     cat_type |-> 40,
     strings  |-> sref,
     entrys   |-> [i \in 1..Len(doc.fmmus) |-> fmmu_entry_xmlRead(doc.fmmus[i])],
     fill     |-> Unset,
     bindata  |-> <<>>]

\* --------------------------------------------------- syncm / syncm_entry
SyncmEntrySize == 8

syncm_entry_binRead(bindata) ==
    [phys_address |-> binVarRead(bindata, 0, 2),
     lenght       |-> binVarRead(bindata, 2, 2),
     control      |-> binVarRead(bindata, 4, 1),
     status       |-> binVarRead(bindata, 5, 1),
     enable       |-> binVarRead(bindata, 6, 1),
     type         |-> binVarRead(bindata, 7, 1),
     bindata      |-> bindata]

syncm_entry_ok(e) ==
    FieldsOk(e, {"phys_address", "lenght", "control", "status", "enable", "type"})

syncm_entry_binWrite(e) ==
    binVarWrite(e.phys_address, 2) \o binVarWrite(e.lenght, 2)
        \o binVarWrite(e.control, 1) \o binVarWrite(e.status, 1)
        \o binVarWrite(e.enable, 1) \o binVarWrite(e.type, 1)

syncm_entry_xmlRead(sm) ==
    [phys_address |-> sm.StartAddress,
     lenght       |-> sm.DefaultSize,
     control      |-> sm.ControlByte,
     status       |-> 0,
     enable       |-> sm.Enable,
     type         |-> IF sm.text = "MBoxOut" THEN 1
                      ELSE IF sm.text = "MBoxIn" THEN 2
                      ELSE IF sm.text = "Outputs" THEN 3
                      ELSE IF sm.text = "Inputs" THEN 4
                      ELSE 0,
     bindata      |-> <<>>]

RECURSIVE syncm_readEntries(_, _)
syncm_readEntries(bindata, offset) ==
    <<syncm_entry_binRead(Slice(bindata, offset, offset + SyncmEntrySize))>>
        \o (IF Len(bindata) - (offset + SyncmEntrySize) < SyncmEntrySize THEN <<>>
            ELSE syncm_readEntries(bindata, offset + SyncmEntrySize))

syncm_binRead(bindata, sref) ==
    LET es == IF Len(bindata) = 0 THEN <<>> ELSE syncm_readEntries(bindata, 0)
        m  == [kind     |-> "syncm",
               cat_type |-> 41,
               strings  |-> sref,
               entrys   |-> es,
               bindata  |-> bindata]
    IN  [ok |-> \A i \in 1..Len(es) : syncm_entry_ok(es[i]), obj |-> m]

syncm_binWrite(m) ==
    Flatten([i \in 1..Len(m.entrys) |-> syncm_entry_binWrite(m.entrys[i])])

syncm_xmlRead(doc, sref) ==
    [kind     |-> "syncm",
     cat_type |-> 41,
     strings  |-> sref,
     entrys   |-> [i \in 1..Len(doc.sms) |-> syncm_entry_xmlRead(doc.sms[i])],
     bindata  |-> <<>>]

\* --------------------------------------------------------------- dclock
fill_n == 4

dclock_binRead(bindata, sref) ==
    LET d == [kind             |-> "dclock",
              cat_type         |-> 60,
              strings          |-> sref,
              cycleTime0       |-> binVarRead(bindata, 0, 4),
              shiftTime0       |-> binVarRead(bindata, 4, 4),
              shiftTime1       |-> binVarRead(bindata, 8, 4),
              sync1CycleFactor |-> binVarRead(bindata, 12, 2),
              assignActivate   |-> binVarRead(bindata, 14, 2),
              sync0CycleFactor |-> binVarRead(bindata, 16, 2),
              nameIdx          |-> binVarRead(bindata, 18, 1),
              descIdx          |-> binVarRead(bindata, 19, 1),
              unknown1         |-> Slice(bindata, 20, 20 + fill_n),
              bindata          |-> bindata]
    IN  [ok |-> FieldsOk(d, {"cycleTime0", "shiftTime0", "shiftTime1", "sync1CycleFactor",
                             "assignActivate", "sync0CycleFactor", "nameIdx", "descIdx"}),
         obj |-> d]

dclock_binWrite(d) ==
    binVarWrite(d.cycleTime0, 4) \o binVarWrite(d.shiftTime0, 4)
        \o binVarWrite(d.shiftTime1, 4) \o binVarWrite(d.sync1CycleFactor, 2)
        \o binVarWrite(d.assignActivate, 2) \o binVarWrite(d.sync0CycleFactor, 2)
        \o binVarWrite(d.nameIdx, 1) \o binVarWrite(d.descIdx, 1)
        \o d.unknown1

\* dclock.xmlRead of one OpMode element: the object (which also gets the
\* attribute cycleTime1, that no codec reads or writes) and the table
\* after its two stringSet calls.
dclock_xmlRead(opMode, table, sref) ==
    LET t1 == stringSetTable(table, opMode.name)
        t2 == stringSetTable(t1, opMode.desc)
    IN  [obj |-> [kind             |-> "dclock",
                  cat_type         |-> 60,
                  strings          |-> sref,
                  cycleTime0       |-> opMode.cycleTimeSync0,
                  shiftTime0       |-> opMode.shiftTimeSync0,
                  cycleTime1       |-> opMode.cycleTimeSync1,
                  shiftTime1       |-> opMode.shiftTimeSync1,
                  sync1CycleFactor |-> 0,
                  assignActivate   |-> 0,
                  sync0CycleFactor |-> 0,
                  nameIdx          |-> stringSet(table, opMode.name),
                  descIdx          |-> stringSet(t1, opMode.desc),
                  unknown1         |-> Zeros(fill_n),
                  bindata          |-> <<>>],
         table |-> t2]

\* -------------------------------------------------------------- strings
\* The loop of strings.binRead: n more texts from the 0-based place offset.
\* A length byte past the end of the slice is an IndexError; a text cut
\* short by the end of the slice is kept as it is.
RECURSIVE strings_readTexts(_, _, _)
strings_readTexts(bindata, offset, n) ==
    IF n = 0 THEN [ok |-> TRUE, texts |-> <<>>, offset |-> offset]
    ELSE IF offset >= Len(bindata) THEN [ok |-> FALSE, texts |-> <<>>, offset |-> offset]
    ELSE LET strlen == bindata[offset + 1]
             text   == Slice(bindata, offset + 1, offset + 1 + strlen)
             rest   == strings_readTexts(bindata, offset + 1 + strlen, n - 1)
         IN  [ok |-> rest.ok, texts |-> <<text>> \o rest.texts, offset |-> rest.offset]

\* strings.binRead: the object, and the new table it builds (placed in
\* the heap at sref).
strings_binRead(bindata, sref) ==
    IF Len(bindata) = 0 THEN [ok |-> FALSE, obj |-> <<>>, table |-> <<>>]
    ELSE LET r == strings_readTexts(bindata, 1, bindata[1])
         IN  [ok    |-> r.ok,
              obj   |-> [kind        |-> "strings",
                         cat_type    |-> 10,
                         strings     |-> sref,
                         num_strings |-> bindata[1],
                         fill        |-> IF r.offset % 2 # 0 THEN bindata[Len(bindata)] ELSE 0,
                         bindata     |-> bindata],
              table |-> << <<>> >> \o r.texts]

\* A strings.binWrite that pads with 0 whatever pad byte was read.
strings_binWrite_zeropad(c, table) ==
    LET body == binVarWrite(Len(table) - 1, 1)
                    \o Flatten([i \in 1..(Len(table) - 1) |->
                                    binVarWrite(Len(table[i + 1]), 1) \o table[i + 1]])
    IN  IF Len(body) % 2 # 0 THEN body \o <<0>> ELSE body

\* strings.binWrite of the object c whose table (self.strings) is `table`.
strings_binWrite(c, table) ==
    LET body == binVarWrite(Len(table) - 1, 1)
                    \o Flatten([i \in 1..(Len(table) - 1) |->
                                    binVarWrite(Len(table[i + 1]), 1) \o table[i + 1]])
    IN  IF Len(body) % 2 # 0 THEN body \o <<c.fill>> ELSE body

\* strings.xmlRead does nothing: the object keeps the table of the model.
strings_xmlRead(sref) ==
    [kind        |-> "strings",
     cat_type    |-> 10,
     strings     |-> sref,
     fill        |-> 0,
     bindata     |-> <<>>]

\* ---------------------------------------------------------- unknown_cat
unknown_cat_binRead(bindata, cat_type, cat_size, sref) ==
    [kind     |-> "unknown_cat",
     cat_type |-> cat_type,
     cat_size |-> cat_size,
     strings  |-> sref,
     data     |-> bindata,
     bindata  |-> <<>>]

unknown_cat_binWrite(u) == u.data

\* ------------------------------------------------------------------ Esi
VARIABLES
    pc,          \* "new": Esi.__init__ before it reads; "loop": Esi.binRead is in
                 \* its catalog loop; "ready": the model is built; "exported":
                 \* Esi.xmlWrite returned; "failed": an exception left the
                 \* constructor, binWrite or Info
    origin,      \* "new", "xml" (Esi.xmlRead) or "bin" (Esi.binRead)
    preamble,    \* Esi.preamble
    stdconfig,   \* Esi.stdconfig
    catalogs,    \* Esi.catalogs, in insertion order
    strings,     \* Esi.strings: the place of the model's table in `tables`
    tables,      \* the string lists that exist; objects refer to them by place
    device_name, \* Esi.device_info["name"]
    source,      \* the bytes handed to Esi.binRead
    image,       \* the bytes the model's last binWrite returned
    prev,        \* the model, and its image, whose image this model was read from
    gen,         \* how many times an image was read back into a new model
    arg,         \* the argument of the last stringSet or datatypeSet call made on the model
    ret,         \* the index it returned; after Info the number of title lines of
                 \* its report; after xmlWrite the Physics attribute exported
    interns,     \* how many such calls were made
    crc,         \* running checksum of preamble.csum
    ref,         \* running checksum of the reference CRC-8
    esi_offset   \* Esi.offset while the catalog loop of Esi.binRead is followed
                 \* pass by pass; no other operation reads it

vars == <<pc, origin, preamble, stdconfig, catalogs, strings, tables, device_name,
          source, image, prev, gen, arg, ret, interns, crc, ref, esi_offset>>

modelVars == <<pc, origin, preamble, stdconfig, catalogs, strings, tables, device_name,
               source, image, prev, gen>>

\* The keys of the categorys dictionary, in its order.
categorys == <<0, 10, 20, 30, 40, 41, 50, 51, 60>>

\* categorys.get(cat_type), when the name is a key of cat_mapping.
cat_mapping(cat_type) ==
    IF cat_type = 10 THEN "strings"
    ELSE IF cat_type = 30 THEN "general"
    ELSE IF cat_type = 40 THEN "fmmu"
    ELSE IF cat_type = 41 THEN "syncm"
    ELSE IF cat_type = 50 THEN "txpdo"
    ELSE IF cat_type = 51 THEN "rxpdo"
    ELSE IF cat_type = 60 THEN "dclock"
    ELSE "none"

HeaderSize == 128

Sentinel == 65535

UnknownLimit == 100

\* cat_mapping[cat_name](self, bindata): the catalog object r read from body.
newCatalog(cat_name, body, st) ==
    IF cat_name = "strings" THEN strings_binRead(body, Len(st.tables) + 1)
    ELSE IF cat_name = "general" THEN general_binRead(body, st.strings)
    ELSE IF cat_name = "fmmu" THEN fmmu_binRead(body, st.strings)
    ELSE IF cat_name = "syncm" THEN syncm_binRead(body, st.strings)
    ELSE IF cat_name = "txpdo" THEN pdo_binRead("txpdo", 50, body, st.strings)
    ELSE IF cat_name = "rxpdo" THEN pdo_binRead("rxpdo", 51, body, st.strings)
    ELSE dclock_binRead(body, st.strings)

\* The reading state st after the catalog r was constructed and appended.
appendKnown(cat_name, r, st) ==
    IF ~r.ok THEN [st EXCEPT !.ok = FALSE]
    ELSE IF cat_name = "strings"
    THEN [st EXCEPT !.catalogs = Append(@, r.obj),
                    !.tables = Append(@, r.table),
                    !.strings = Len(st.tables) + 1]
    ELSE [st EXCEPT !.catalogs = Append(@, r.obj),
                    !.device_name =
                        IF cat_name = "general"
                        THEN value2xmlText(st.tables[st.strings], r.obj.nameindex)
                        ELSE @]

\* One known catalog read by Esi.binRead into the reading state st.
readKnown(cat_name, body, st) == appendKnown(cat_name, newCatalog(cat_name, body, st), st)

\* A loop that also keeps an unknown catalog of exactly UnknownLimit
\* bytes: not the code's.
keepsUnknown_le(cat_type, cat_size) == cat_type # Sentinel /\ cat_size <= UnknownLimit

\* Whether the catalog loop keeps an unknown catalog of cat_size bytes.
keepsUnknown(cat_type, cat_size) == cat_type # Sentinel /\ cat_size < UnknownLimit

\* One pass of the catalog loop over the frame (cat_type, cat_size, body).
readCatalog(cat_type, cat_size, body, st) ==
    IF cat_mapping(cat_type) # "none"
    THEN readKnown(cat_mapping(cat_type), body, st)
    ELSE IF keepsUnknown(cat_type, cat_size)
    THEN [st EXCEPT !.catalogs =
             Append(@, unknown_cat_binRead(body, cat_type, cat_size, st.strings))]
    ELSE st

\* The frame at the 0-based place offset, its header already read.
readFrame(bindata, offset, cat_type, cat_size, st) ==
    readCatalog(cat_type, cat_size, Slice(bindata, offset + 4, offset + 4 + cat_size), st)

\* A catalog loop that steps over the header only of an unknown catalog it
\* keeps: not the code's.
RECURSIVE readCatalogs_noskip(_, _, _)
readCatalogs_noskip(bindata, offset, st) ==
    IF ~st.ok \/ offset + 4 > Len(bindata) THEN st
    ELSE readCatalogs_noskip(
             bindata,
             IF cat_mapping(binVarRead(bindata, offset, 2)) = "none"
                   /\ keepsUnknown(binVarRead(bindata, offset, 2),
                                   binVarRead(bindata, offset + 2, 2) * 2)
             THEN offset + 4
             ELSE offset + 4 + binVarRead(bindata, offset + 2, 2) * 2,
             readFrame(bindata, offset, binVarRead(bindata, offset, 2),
                       binVarRead(bindata, offset + 2, 2) * 2, st))

\* The catalog loop of Esi.binRead from the 0-based place offset.
RECURSIVE readCatalogs(_, _, _)
readCatalogs(bindata, offset, st) ==
    IF ~st.ok \/ offset + 4 > Len(bindata) THEN st
    ELSE readCatalogs(bindata,
                      offset + 4 + binVarRead(bindata, offset + 2, 2) * 2,
                      readFrame(bindata, offset, binVarRead(bindata, offset, 2),
                                binVarRead(bindata, offset + 2, 2) * 2, st))

\* The Esi that results from the preamble p, the stdconfig c and the final
\* reading state st of the catalog loop.
binReadResult(p, c, st) ==
    [ok |-> st.ok, preamble |-> p.obj, stdconfig |-> c.obj, catalogs |-> st.catalogs,
     strings |-> st.strings, tables |-> st.tables, device_name |-> st.device_name]

\* The catalog loop run after the preamble p and the stdconfig c were read.
binReadCatalogs(bindata, p, c) ==
    binReadResult(p, c,
                  readCatalogs(bindata, HeaderSize,
                               [ok |-> p.ok /\ c.ok, catalogs |-> <<>>, strings |-> 1,
                                tables |-> << << <<>> >> >>, device_name |-> <<>>]))

\* Esi.binRead on a new Esi (strings = [""], no catalogs).
Esi_binRead(bindata) ==
    binReadCatalogs(bindata,
                    preamble_binRead(Slice(bindata, 0, PreambleSize)),
                    stdconfig_binRead(Slice(bindata, PreambleSize,
                                            PreambleSize + StdconfigSize)))

\* catalog.binWrite() by the class of the catalog.
catalog_binWrite(cat, tbls) ==
    IF cat.kind = "strings" THEN strings_binWrite(cat, tbls[cat.strings])
    ELSE IF cat.kind = "general" THEN general_binWrite(cat)
    ELSE IF cat.kind = "fmmu" THEN fmmu_binWrite(cat)
    ELSE IF cat.kind = "syncm" THEN syncm_binWrite(cat)
    ELSE IF cat.kind \in {"txpdo", "rxpdo"} THEN pdo_binWrite(cat)
    ELSE IF cat.kind = "dclock" THEN dclock_binWrite(cat)
    ELSE unknown_cat_binWrite(cat)

\* What Esi.binWrite adds for one catalog: nothing when its bytes are empty.
frame_binWrite(cat, tbls) ==
    LET cat_bindata == catalog_binWrite(cat, tbls)
    IN  IF Len(cat_bindata) > 0
        THEN binVarWrite(cat.cat_type, 2) \o binVarWrite(Len(cat_bindata) \div 2, 2)
                 \o cat_bindata
        ELSE <<>>

\* A writer that visits the catalogs in their stored order: not the code's.
writeOrder_stored(cats) == cats

\* The catalogs Esi.binWrite visits, in the order it visits them.
writeOrder(cats) ==
    Flatten([k \in 1..Len(categorys) |->
                SelectSeq(cats, LAMBDA cat : cat.cat_type = categorys[k])])

\* A writer that ends the image without the end marker: not the code's.
Esi_binWrite_nomarker(pre, std, cats, tbls) ==
    preamble_binWrite(pre) \o stdconfig_binWrite(std)
        \o Flatten([i \in 1..Len(writeOrder(cats)) |->
                        frame_binWrite(writeOrder(cats)[i], tbls)])

\* Esi.binWrite: the byte list (Err in it when a pack raised).
Esi_binWrite(pre, std, cats, tbls) ==
    preamble_binWrite(pre) \o stdconfig_binWrite(std)
        \o Flatten([i \in 1..Len(writeOrder(cats)) |->
                        frame_binWrite(writeOrder(cats)[i], tbls)])
        \o <<255, 255>>

\* The catalogs Esi.xmlRead builds from a list of RxPdo / TxPdo elements,
\* and the table after them.
RECURSIVE xmlPdos(_, _, _, _, _)
xmlPdos(kind, cat_type, pdos, table, sref) ==
    IF pdos = <<>> THEN [cats |-> <<>>, table |-> table]
    ELSE LET one  == pdo_xmlRead(kind, cat_type, Head(pdos), table, sref)
             rest == xmlPdos(kind, cat_type, Tail(pdos), one.table, sref)
         IN  [cats |-> <<one.obj>> \o rest.cats, table |-> rest.table]

\* The catalogs Esi.xmlRead builds from the Dc/OpMode elements.
RECURSIVE xmlDclocks(_, _, _)
xmlDclocks(opModes, table, sref) ==
    IF opModes = <<>> THEN [cats |-> <<>>, table |-> table]
    ELSE LET one  == dclock_xmlRead(Head(opModes), table, sref)
             rest == xmlDclocks(Tail(opModes), one.table, sref)
         IN  [cats |-> <<one.obj>> \o rest.cats, table |-> rest.table]

\* Esi.xmlRead on a new Esi whose table `table` is at sref: strings,
\* general, fmmu, syncm, every RxPdo, every TxPdo, every OpMode.
Esi_xmlRead(doc, table, sref) ==
    LET g  == general_xmlRead(doc, table, sref)
        rx == xmlPdos("rxpdo", 51, doc.rxpdos, g.table, sref)
        tx == xmlPdos("txpdo", 50, doc.txpdos, rx.table, sref)
        dc == xmlDclocks(doc.opModes, tx.table, sref)
    IN  [preamble    |-> preamble_xmlRead(doc.configData),
         stdconfig   |-> stdconfig_xmlRead(doc),
         catalogs    |-> <<strings_xmlRead(sref), g.obj, fmmu_xmlRead(doc, sref),
                           syncm_xmlRead(doc, sref)>> \o rx.cats \o tx.cats \o dc.cats,
         table       |-> dc.table,
         device_name |-> value2xmlText(g.table, g.obj.nameindex)]

\* ------------------------------------------------------------- Esi.Info
\* The test every Info method makes before it lists bytes: the object holds
\* raw bytes, and binWrite does not give them back.
reencodingDiffers(bindata, written) == bindata # <<>> /\ bindata # written

\* The head of every Info method: the title line, then, with debug output
\* on or with a re-encoding that differs, output.append("... bin:", bytes),
\* a call of list.append with two arguments, which raises TypeError.
object_Info(o, debug) ==
    IF debug > 0 \/ reencodingDiffers(o.bindata, o.written)
    THEN [ok |-> FALSE, output |-> <<>>]
    ELSE [ok |-> TRUE, output |-> <<o.title>>]

\* The sub-records a catalog's Info reports after its own fields.
entryObjects(cat) ==
    IF cat.kind = "fmmu"
    THEN [i \in 1..Len(cat.entrys) |->
              [title |-> "fmmu_entry", bindata |-> cat.entrys[i].bindata,
               written |-> fmmu_entry_binWrite(cat.entrys[i])]]
    ELSE IF cat.kind = "syncm"
    THEN [i \in 1..Len(cat.entrys) |->
              [title |-> "syncm_entry", bindata |-> cat.entrys[i].bindata,
               written |-> syncm_entry_binWrite(cat.entrys[i])]]
    ELSE IF cat.kind \in {"txpdo", "rxpdo"}
    THEN [i \in 1..Len(cat.entrys) |->
              [title |-> "pdo_entry", bindata |-> cat.entrys[i].bindata,
               written |-> pdo_entry_binWrite(cat.entrys[i])]]
    ELSE <<>>

\* The objects Esi.Info reports on, in its order: the preamble, the
\* stdconfig, every catalog and behind each catalog its sub-records; each
\* with its title, its raw bytes and the bytes its binWrite gives.
infoObjects(pre, std, cats, tbls) ==
    <<[title |-> "preamble", bindata |-> pre.bindata, written |-> preamble_binWrite(pre)],
      [title |-> "stdconfig", bindata |-> std.bindata, written |-> stdconfig_binWrite(std)]>>
        \o Flatten([k \in 1..Len(cats) |->
                        <<[title |-> cats[k].kind, bindata |-> cats[k].bindata,
                           written |-> catalog_binWrite(cats[k], tbls)]>>
                            \o entryObjects(cats[k])])

\* Esi.Info: the titles of the objects reported, or no report when the
\* Info of an object raised.
Esi_Info(pre, std, cats, tbls, debug) ==
    LET objs == infoObjects(pre, std, cats, tbls)
    IN  IF \A i \in 1..Len(objs) : object_Info(objs[i], debug).ok
        THEN [ok |-> TRUE, output |-> Flatten([i \in 1..Len(objs) |->
                                                  object_Info(objs[i], debug).output])]
        ELSE [ok |-> FALSE, output |-> <<>>]

\* The checksum the preamble holds after preamble.Info: the call of
\* binWrite in its test stores the checksum of the bytes written.
preamble_Info_checksum(pre, debug) ==
    IF debug > 0 \/ pre.bindata = <<>> \/ preamble_checksum(pre) = Err
    THEN pre.checksum
    ELSE preamble_checksum(pre)

\* ----------------------------------------------------------- the inputs
\* Texts, as character codes: "foo", "bar", "ab".
T_foo == <<102, 111, 111>>
T_bar == <<98, 97, 114>>
T_ab == <<97, 98>>

\* A value handed to stringSet: a text, or the integer default of xml_value.
TV(text) == [int |-> FALSE, v |-> text]
IV(n) == [int |-> TRUE, v |-> n]

DocEntry(i) ==
    [index    |-> 24576 + i,
     subindex |-> i,
     name     |-> IF i % 2 = 1 THEN TV(T_bar) ELSE TV(T_ab),
     dataType |-> IF i % 3 = 1 THEN "BOOL" ELSE IF i % 3 = 2 THEN "UINT16" ELSE "INT24",
     bitLen   |-> i]

DocPdo(base, k, ne) ==
    [index               |-> base + k,
     sm                  |-> 2 + k,
     \* the k-th element has no Name: xml_value yields its default 0
     name                |-> IF k % 2 = 1 THEN TV(T_foo) ELSE IV(0),
     mandatory           |-> k % 2,
     fixed               |-> 1,
     virtual             |-> 0,
     overwrittenByModule |-> 0,
     entries             |-> [i \in 1..ne |-> DocEntry(i)]]

DocSm(k) ==
    [text         |-> IF k = 1 THEN "MBoxOut" ELSE IF k = 2 THEN "MBoxIn" ELSE "Outputs",
     StartAddress |-> 4096 * k,
     DefaultSize  |-> 128,
     ControlByte  |-> 38,
     Enable       |-> 1]

DocOpMode(k) ==
    [name           |-> TV(<<68, 67>>),
     desc           |-> TV(<<>>),
     cycleTimeSync0 |-> 1000 * k,
     shiftTimeSync0 |-> 0,
     cycleTimeSync1 |-> 7,
     shiftTimeSync1 |-> 5]

\* How many RxPdo, TxPdo, OpMode and Sm elements a document holds.
Shapes ==
    { [rx |-> 0, tx |-> 0, dc |-> 0, sm |-> 0],
      [rx |-> 1, tx |-> 1, dc |-> 0, sm |-> 2],
      [rx |-> 1, tx |-> 2, dc |-> 1, sm |-> 0],
      [rx |-> 1, tx |-> 0, dc |-> 1, sm |-> 1] }

FmmuText(i) == IF i % 3 = 1 THEN "Outputs" ELSE IF i % 3 = 2 THEN "Inputs" ELSE "MBoxState"

\* The values a document import extracts, for nf Fmmu elements, the
\* element counts of shape, ne entries in every Pdo and the device name nm.
Doc(nf, shape, ne, nm) ==
    [configData  |-> IF shape.sm = 0 THEN <<>> ELSE <<5, 14, 3, 204, 136, 19, 0, 0, 1, 0>>,
     vendorId    |-> 2,
     productCode |-> 72100946,
     revisionNo  |-> 1,
     byteSize    |-> IF shape.dc = 0 THEN 0 ELSE 2048,
     bootStrap   |-> IF shape.rx = 0 THEN <<>> ELSE <<0, 16, 128, 0, 128, 16, 128, 0>>,
     mailbox     |-> IF shape.sm = 2 THEN {"CoE", "FoE"} ELSE {},
     coe         |-> [SdoInfo |-> 1, PdoAssign |-> 0, PdoConfig |-> 1, PdoUpload |-> 0],
     groupType   |-> TV(T_ab),
     name        |-> nm,
     physics     |-> IF shape.tx = 0 THEN <<>> ELSE <<"Y", "K">>,
     sms         |-> [k \in 1..shape.sm |-> DocSm(k)],
     fmmus       |-> [i \in 1..nf |-> FmmuText(i)],
     rxpdos      |-> [k \in 1..shape.rx |-> DocPdo(5632, k, ne)],
     txpdos      |-> [k \in 1..shape.tx |-> DocPdo(6656, k, ne)],
     opModes     |-> [k \in 1..shape.dc |-> DocOpMode(k)]]

Docs ==
    {Doc(nf, shape, ne, nm) :
        nf \in 0..MaxFmmu, shape \in Shapes, ne \in 0..MaxEntries,
        nm \in {TV(T_foo), TV(T_ab)}}

\* A catalog frame of an input buffer.
Frame(code, payload) ==
    <<code % 256, code \div 256, (Len(payload) \div 2) % 256, (Len(payload) \div 2) \div 256>>
        \o payload

Pattern(n) == [i \in 1..n |-> (7 * i) % 251]

\* The frames input buffers are made of: known catalogs, a catalog of the
\* unused code 20, and catalogs of the unknown code 0x1234 of 50, 98 and
\* 100 bytes.
FrameSet ==
    { Frame(10, <<2, 3, 102, 111, 111, 3, 98, 97, 114, 255>>),
      Frame(30, <<2, 0, 0, 1, 0, 35, 1, 0, 0, 0, 0, 1, 232, 3, 1, 0, 17, 0, 0, 0>> \o Zeros(12)),
      Frame(40, <<1, 2>>),
      Frame(40, <<1, 2, 3, 0>>),
      Frame(41, <<0, 16, 128, 0, 38, 0, 1, 1>>),
      Frame(50, <<0, 26, 1, 3, 0, 1, 17, 0>> \o <<0, 96, 1, 2, 1, 1, 0, 0>>),
      Frame(50, <<1, 26, 3, 3, 0, 2, 0, 0>> \o <<0, 96, 2, 1, 6, 16, 0, 0>>),
      Frame(51, <<0, 22, 0, 2, 0, 1, 0, 0>>),
      Frame(60, <<232, 3, 0, 0>> \o Zeros(8) \o <<0, 0, 0, 3, 1, 0, 1, 2>> \o <<9, 8, 7, 6>>),
      Frame(20, <<4, 3, 2, 1>>),
      Frame(4660, Pattern(50)),
      Frame(4660, Pattern(98)),
      Frame(4660, Pattern(100)) }

\* The sequences of at most n different frames.
RECURSIVE FrameSeqs(_)
FrameSeqs(n) ==
    IF n = 0 THEN {<<>>}
    ELSE FrameSeqs(n - 1)
           \cup {Append(fs, f) : fs \in FrameSeqs(n - 1), f \in FrameSet}

Distinct(fs) == \A i, j \in 1..Len(fs) : i # j => fs[i] # fs[j]

\* The first 14 bytes of the input buffers' preamble.
PreambleBytes == <<5, 14, 3, 204, 136, 19, 0, 0, 1, 0, 0, 0, 0, 0>>

\* The stdconfig of the input buffers: vendor 2, a standard mailbox,
\* mailbox_protocol 4, eeprom_size 15, version 1.
StdconfigBytes ==
    [i \in 1..StdconfigSize |->
        IF i = 1 THEN 2 ELSE IF i = 5 THEN 82 ELSE IF i = 9 THEN 1
        ELSE IF i = 34 THEN 16 ELSE IF i = 35 THEN 128 ELSE IF i = 41 THEN 4
        ELSE IF i = 109 THEN 15 ELSE IF i = 111 THEN 1 ELSE 0]

\* An input buffer: the header with a matching (good) or mismatching
\* checksum, the frames, and the end marker.
Buffer(good, fs) ==
    PreambleBytes
        \o <<IF good THEN csum(PreambleBytes) ELSE (csum(PreambleBytes) + 1) % 256, 0>>
        \o StdconfigBytes \o Flatten(fs) \o <<255, 255>>

Buffers ==
    {Buffer(good, fs) : good \in BOOLEAN, fs \in {x \in FrameSeqs(MaxFrames) : Distinct(x)}}

\* Frames an image need not hold but may: an end marker that is followed
\* by more frames (with word count 0 and 1), a General record of 20 and of
\* 16 bytes, a DistributedClock record of 20 and of 12 bytes, and a
\* catalog of the code 0.
IrregularFrames ==
    { Frame(65535, <<>>),
      Frame(65535, <<1, 2>>),
      Frame(30, <<2, 0, 0, 1, 0, 35, 1, 0, 0, 0, 0, 1, 232, 3, 1, 0, 17, 0, 0, 0>>),
      Frame(30, <<2, 0, 0, 1, 0, 35, 1, 0, 0, 0, 0, 1, 232, 3, 1, 0>>),
      Frame(60, <<232, 3, 0, 0>> \o Zeros(8) \o <<0, 0, 0, 3, 1, 0, 1, 2>>),
      Frame(60, <<232, 3, 0, 0>> \o Zeros(8)),
      Frame(0, <<4, 3, 2, 1>>) }

\* The well-formed frames that stand next to them.
RegularFrames ==
    { Frame(10, <<2, 3, 102, 111, 111, 3, 98, 97, 114, 255>>),
      Frame(30, <<2, 0, 0, 1, 0, 35, 1, 0, 0, 0, 0, 1, 232, 3, 1, 0, 17, 0, 0, 0>> \o Zeros(12)),
      Frame(40, <<1, 2>>),
      Frame(60, <<232, 3, 0, 0>> \o Zeros(8) \o <<0, 0, 0, 3, 1, 0, 1, 2>> \o <<9, 8, 7, 6>>) }

\* The sequences of at most n frames of the set S.
RECURSIVE SeqsOver(_, _)
SeqsOver(S, n) ==
    IF n = 0 THEN {<<>>}
    ELSE SeqsOver(S, n - 1) \cup {Append(fs, f) : fs \in SeqsOver(S, n - 1), f \in S}

\* An input buffer that ends cut bytes before the end of its last frame.
CutBuffer(fs, cut) == Slice(Buffer(TRUE, fs), 0, HeaderSize + Len(Flatten(fs)) - cut)

\* Input buffers with at least one irregular frame, and buffers that end
\* one byte or three bytes before the end of their last frame.
IrregularBuffers ==
    {Buffer(TRUE, fs) :
        fs \in {x \in SeqsOver(IrregularFrames \cup RegularFrames, MaxFrames) :
                   Distinct(x) /\ \E i \in 1..Len(x) : x[i] \in IrregularFrames}}
    \cup {CutBuffer(fs, cut) :
            fs \in {x \in SeqsOver(IrregularFrames \cup RegularFrames, MaxFrames) :
                       Distinct(x) /\ x # <<>>},
            cut \in {1, 3}}

\* ---------------------------------------------------------- the actions
\* Largest number of times an image is read back into a new model.
MaxReopen == 1

NoModel ==
    [preamble |-> <<>>, stdconfig |-> <<>>, catalogs |-> <<>>, strings |-> 1,
     tables |-> << << <<>> >> >>, image |-> <<>>, origin |-> "new"]

\* Esi.__init__ up to the point where it reads its input.
Init ==
    /\ pc = "new"
    /\ origin = "new"
    /\ preamble = <<>>
    /\ stdconfig = <<>>
    /\ catalogs = <<>>
    /\ strings = 1
    /\ tables = << << <<>> >> >>
    /\ device_name = <<>>
    /\ source = <<>>
    /\ image = <<>>
    /\ prev = NoModel
    /\ gen = 0
    /\ arg = TV(<<>>)
    /\ ret = 0
    /\ interns = 0
    /\ crc = 255
    /\ ref = 255
    /\ esi_offset = 0

\* The fields of the Esi take the values of the model m that xmlRead built.
Built(m) ==
    /\ preamble' = m.preamble
    /\ stdconfig' = m.stdconfig
    /\ catalogs' = m.catalogs
    /\ tables' = [tables EXCEPT ![strings] = m.table]
    /\ device_name' = m.device_name

\* Esi.__init__ on a document: Esi.xmlRead.
XmlRead(doc) ==
    /\ pc = "new"
    /\ Built(Esi_xmlRead(doc, tables[strings], strings))
    /\ pc' = "ready"
    /\ origin' = "xml"
    /\ UNCHANGED <<strings, source, image, prev, gen, arg, ret, interns, crc, ref, esi_offset>>

\* The state of a new Esi after Esi.binRead(bindata); an exception leaves
\* no model.
Loaded(bindata, m) ==
    /\ source' = bindata
    /\ origin' = "bin"
    /\ IF m.ok
       THEN /\ pc' = "ready"
            /\ preamble' = m.preamble
            /\ stdconfig' = m.stdconfig
            /\ catalogs' = m.catalogs
            /\ strings' = m.strings
            /\ tables' = m.tables
            /\ device_name' = m.device_name
       ELSE /\ pc' = "failed"
            /\ preamble' = <<>>
            /\ stdconfig' = <<>>
            /\ catalogs' = <<>>
            /\ strings' = 1
            /\ tables' = << << <<>> >> >>
            /\ device_name' = <<>>

\* A new Esi is constructed on the bytes bindata.
Load(bindata) == Loaded(bindata, Esi_binRead(bindata))

\* Esi.__init__ on a .bin file: Esi.binRead.
BinRead(bindata) ==
    /\ pc = "new"
    /\ Load(bindata)
    /\ UNCHANGED <<image, prev, gen, arg, ret, interns, crc, ref, esi_offset>>

\* The outcome of Esi.binWrite that returned bindata: the image, and the
\* checksum preamble.binWrite stores.
Written(bindata, checksum) ==
    /\ preamble' = IF checksum = Err THEN preamble
                   ELSE [preamble EXCEPT !.checksum = checksum]
    /\ IF Err \in Range(bindata)
       THEN pc' = "failed" /\ image' = image
       ELSE pc' = pc /\ image' = bindata

\* Esi.binWrite: the image, and the checksum preamble.binWrite stores.
BinWrite ==
    /\ pc = "ready"
    /\ Written(Esi_binWrite(preamble, stdconfig, catalogs, tables),
               preamble_checksum(preamble))
    /\ UNCHANGED <<origin, stdconfig, catalogs, strings, tables, device_name, source,
                   prev, gen, arg, ret, interns, crc, ref, esi_offset>>

\* The image is saved and a new Esi is constructed on it.
Reopen ==
    /\ pc = "ready"
    /\ image # <<>>
    /\ gen < MaxReopen
    /\ prev' = [preamble |-> preamble, stdconfig |-> stdconfig, catalogs |-> catalogs,
                strings |-> strings, tables |-> tables, image |-> image,
                origin |-> origin]
    /\ gen' = gen + 1
    /\ image' = <<>>
    /\ Load(image)
    /\ UNCHANGED <<arg, ret, interns, crc, ref, esi_offset>>

Next ==
    \/ \E doc \in Docs : XmlRead(doc)
    \/ \E bindata \in Buffers : BinRead(bindata)
    \/ BinWrite
    \/ Reopen

Spec == Init /\ [][Next]_vars

\* ------------------------------------------ irregular images, on their own
NextIrregular ==
    \/ \E bindata \in IrregularBuffers : BinRead(bindata)
    \/ BinWrite
    \/ Reopen

SpecIrregular == Init /\ [][NextIrregular]_vars

\* ------------------------------------------- the diagnostic, on its own
\* A General record whose 12 reserved trailing bytes are not all 0.
GeneralReserved ==
    Frame(30, <<2, 0, 0, 1, 0, 35, 1, 0, 0, 0, 0, 1, 232, 3, 1, 0, 17, 0, 0, 0>>
                  \o Zeros(11) \o <<9>>)

InfoBuffers == Buffers \cup {Buffer(good, <<GeneralReserved>>) : good \in BOOLEAN}

\* The values of Esi.debug.
Debugs == {0, 1}

\* The state after Esi.Info returned r: ret is the number of title lines
\* of the report, Err when an exception left Info.
Informed(r, checksum) ==
    /\ preamble' = [preamble EXCEPT !.checksum = checksum]
    /\ pc' = IF r.ok THEN pc ELSE "failed"
    /\ ret' = IF r.ok THEN Len(r.output) ELSE Err

\* esi.Info() on a model built with debug.
Info(debug) ==
    /\ pc = "ready"
    /\ Informed(Esi_Info(preamble, stdconfig, catalogs, tables, debug),
                preamble_Info_checksum(preamble, debug))
    /\ UNCHANGED <<origin, stdconfig, catalogs, strings, tables, device_name, source,
                   image, prev, gen, arg, interns, crc, ref, esi_offset>>

NextInfo ==
    \/ \E doc \in Docs : XmlRead(doc)
    \/ \E bindata \in InfoBuffers : BinRead(bindata)
    \/ \E debug \in Debugs : Info(debug)
    \/ BinWrite

SpecInfo == Init /\ [][NextInfo]_vars

\* ------------------------------------ the Physics attribute, on its own
\* The Physics attributes of 1 to PortCount characters over Y and K.
PhysicsStrings == UNION {[1..n -> {"Y", "K"}] : n \in 1..PortCount}

\* Documents with these attributes.
PhysicsDocs ==
    {[Doc(1, shape, 1, TV(T_foo)) EXCEPT !.physics = physics] :
        shape \in Shapes, physics \in PhysicsStrings}

\* The General catalog of the model.
TheGeneral == SelectSeq(catalogs, LAMBDA c : c.kind = "general")[1]

\* Esi.xmlWrite: of the document it returns, ret is the Physics attribute
\* that general.xmlWrite sets on the Device element.
XmlWrite ==
    /\ pc = "ready"
    /\ origin = "xml"
    /\ pc' = "exported"
    /\ ret' = general_xmlWrite_Physics(TheGeneral)
    /\ UNCHANGED <<origin, preamble, stdconfig, catalogs, strings, tables, device_name,
                   source, image, prev, gen, arg, interns, crc, ref, esi_offset>>

NextPhysics ==
    \/ \E doc \in PhysicsDocs : XmlRead(doc)
    \/ XmlWrite

SpecPhysics == Init /\ [][NextPhysics]_vars

\* ------------------------------------------------ interning, on its own
\* The values handed to stringSet.
InternValues == {TV(<<>>), TV(T_foo), TV(T_bar), IV(0)}

\* Base.stringSet(value), called on an object whose parent is the model.
StringSet(value) ==
    /\ pc \in {"new", "ready"}
    /\ origin # "bin"
    /\ interns < MaxInterns
    /\ tables' = [tables EXCEPT ![strings] = stringSetTable(tables[strings], value)]
    /\ arg' = value
    /\ ret' = stringSet(tables[strings], value)
    /\ interns' = interns + 1
    /\ UNCHANGED <<pc, origin, preamble, stdconfig, catalogs, strings, device_name,
                   source, image, prev, gen, crc, ref, esi_offset>>

NextStrings ==
    \/ \E doc \in Docs : XmlRead(doc)
    \/ \E value \in InternValues : StringSet(value)

SpecStrings == Init /\ [][NextStrings]_vars

\* ------------------------------------- the catalog loop, pass by pass
\* A cursor that is moved by the declared length only: not the code's.
nextOffset_nohead(at, cat_size) == at + cat_size

\* The cursor after a frame of cat_size bytes whose header stands at the
\* 0-based place at: the two header reads, then `offset += cat_size`.
nextOffset(at, cat_size) == at + 2 + 2 + cat_size

\* The reading state the loop has built so far.
loopState ==
    [ok |-> TRUE, catalogs |-> catalogs, strings |-> strings, tables |-> tables,
     device_name |-> device_name]

\* Esi.binRead up to the loop: preamble and stdconfig are read, the
\* catalogs emptied and the cursor set to 128.
LoopStarted(bindata, p, c) ==
    /\ source' = bindata
    /\ origin' = "bin"
    /\ pc' = IF p.ok /\ c.ok THEN "loop" ELSE "failed"
    /\ preamble' = IF p.ok /\ c.ok THEN p.obj ELSE <<>>
    /\ stdconfig' = IF p.ok /\ c.ok THEN c.obj ELSE <<>>
    /\ esi_offset' = HeaderSize

LoopStart(bindata) ==
    /\ pc = "new"
    /\ LoopStarted(bindata,
                   preamble_binRead(Slice(bindata, 0, PreambleSize)),
                   stdconfig_binRead(Slice(bindata, PreambleSize,
                                           PreambleSize + StdconfigSize)))
    /\ UNCHANGED <<catalogs, strings, tables, device_name, image, prev, gen,
                   arg, ret, interns, crc, ref>>

\* The outcome of one pass that left the reading state st.
LoopPassed(cat_size, st) ==
    /\ pc' = IF st.ok THEN "loop" ELSE "failed"
    /\ catalogs' = IF st.ok THEN st.catalogs ELSE <<>>
    /\ strings' = IF st.ok THEN st.strings ELSE 1
    /\ tables' = IF st.ok THEN st.tables ELSE << << <<>> >> >>
    /\ device_name' = IF st.ok THEN st.device_name ELSE <<>>
    /\ esi_offset' = IF st.ok THEN nextOffset(esi_offset, cat_size) ELSE esi_offset

\* One pass of the loop: the header at the cursor is read, the catalog
\* read or stepped over, and the cursor moved behind it.
LoopPass ==
    /\ pc = "loop"
    /\ ~(esi_offset + 4 > Len(source))
    /\ \E cat_type \in {binVarRead(source, esi_offset, 2)},
          cat_size \in {binVarRead(source, esi_offset + 2, 2) * 2} :
           \E body \in {Slice(source, esi_offset + 4, esi_offset + 4 + cat_size)} :
               IF cat_mapping(cat_type) # "none"
               THEN \E r \in {newCatalog(cat_mapping(cat_type), body, loopState)} :
                        \E st \in {appendKnown(cat_mapping(cat_type), r, loopState)} :
                            LoopPassed(cat_size, st)
               ELSE \E st \in {readCatalog(cat_type, cat_size, body, loopState)} :
                        LoopPassed(cat_size, st)
    /\ UNCHANGED <<origin, preamble, stdconfig, source, image, prev, gen,
                   arg, ret, interns, crc, ref>>

\* The break of the loop: fewer than 4 bytes are left behind the cursor.
LoopBreak ==
    /\ pc = "loop"
    /\ esi_offset + 4 > Len(source)
    /\ pc' = "ready"
    /\ UNCHANGED <<origin, preamble, stdconfig, catalogs, strings, tables, device_name,
                   source, image, prev, gen, arg, ret, interns, crc, ref, esi_offset>>

NextLoop ==
    \/ \E bindata \in IrregularBuffers : LoopStart(bindata)
    \/ LoopPass
    \/ LoopBreak

\* The loop runs on once it was entered: nothing else is scheduled.
SpecLoop == Init /\ [][NextLoop]_vars /\ WF_vars(LoopPass) /\ WF_vars(LoopBreak)

\* ---------------------------------------------- data types, on their own
\* The DataType texts handed to datatypeSet: the names of the enumeration,
\* the three aliases, and names the enumeration does not hold.
TypeNames ==
    {datatypes[i][2] : i \in 1..Len(datatypes)}
        \cup {"UINT16", "UINT8", "UINT32"}
        \cup {"", "BIT", "BYTE", "WORD", "DWORD", "LINT", "ULINT", "LWORD"}

\* Base.datatypeSet(datatype), called by pdo_entry.xmlRead.
DatatypeSet(datatype) ==
    /\ pc = "new"
    /\ interns < MaxInterns
    /\ arg' = datatype
    /\ ret' = datatypeSet(datatype)
    /\ interns' = interns + 1
    /\ UNCHANGED <<modelVars, crc, ref, esi_offset>>

NextDatatypes == \E datatype \in TypeNames : DatatypeSet(datatype)

SpecDatatypes == Init /\ [][NextDatatypes]_vars

\* ------------------------------------------------ the checksum, on its own
\* One round of the CRC-8 of the specification: the accumulator is reduced
\* modulo 256 after each shift.
RECURSIVE refRounds(_, _)
refRounds(acc, n) ==
    IF n = 0 THEN acc
    ELSE IF acc >= 128 THEN refRounds(BitXor((acc * 2) % 256, 7), n - 1)
    ELSE refRounds((acc * 2) % 256, n - 1)

refByte(acc, b) == refRounds(BitXor(acc, b), 8)

\* preamble.csum takes one more byte.
CsumByte(b) ==
    /\ crc' = crc8byte(crc, b)
    /\ ref' = refByte(ref, b)
    /\ UNCHANGED <<modelVars, arg, ret, interns, esi_offset>>

NextCrc == \E b \in 0..255 : CsumByte(b)

SpecCrc == Init /\ [][NextCrc]_vars

\* ------------------------------------------------- properties of the codec
\* The frames of an image from the 0-based place offset on: category code,
\* word count and payload of each.
RECURSIVE FramesIn(_, _)
FramesIn(bytes, offset) ==
    IF offset + 4 > Len(bytes) THEN <<>>
    ELSE <<[code    |-> bytes[offset + 1] + 256 * bytes[offset + 2],
            count   |-> bytes[offset + 3] + 256 * bytes[offset + 4],
            payload |-> Slice(bytes, offset + 4,
                              offset + 4 + 2 * (bytes[offset + 3] + 256 * bytes[offset + 4]))]>>
         \o FramesIn(bytes, offset + 4 + 2 * (bytes[offset + 3] + 256 * bytes[offset + 4]))

\* The frames of the last image written, and of the bytes last read.
ImageFrames == FramesIn(image, HeaderSize)
SourceFrames == FramesIn(source, HeaderSize)

\* The category codes of the seven supported catalog types, in the order
\* the specification fixes for them.
CanonicalOrder == <<10, 30, 40, 41, 50, 51, 60>>

\* A category code that is neither in the table of category codes nor the
\* end marker.
IsUnknownCode(code) == code \notin Range(categorys) /\ code # 65535

\* A record without its raw bytes.
NoBindata(r) == [f \in DOMAIN r \ {"bindata"} |-> r[f]]

\* What a catalog holds: its fields, its sub-records and, for the string
\* table, its texts; not the raw bytes, the pad byte or the place of the
\* table it refers to.
Content(cat, tbls) ==
    [f \in (DOMAIN cat \ {"bindata", "strings", "fill", "num_strings", "cycleTime1"})
               \cup {"texts"} |->
        IF f = "entrys" THEN [i \in 1..Len(cat.entrys) |-> NoBindata(cat.entrys[i])]
        ELSE IF f = "texts" THEN (IF cat.kind = "strings" THEN tbls[cat.strings] ELSE <<>>)
        ELSE cat[f]]

\* The contents of the catalogs of one category that have something to
\* encode, in their stored order.
ContentOf(cats, tbls, code) ==
    LET s == SelectSeq(cats, LAMBDA c : c.cat_type = code /\ catalog_binWrite(c, tbls) # <<>>)
    IN  [i \in 1..Len(s) |-> Content(s[i], tbls)]

\* Every catalog is of one of the seven supported types.
AllSupported(cats) == \A i \in 1..Len(cats) : cats[i].cat_type \in Range(CanonicalOrder)

\* C1: when a model whose catalogs are all of supported types was encoded
\* and the image decoded, the decode completed and, for each catalog type,
\* the catalogs of the new model hold the fields and sub-records of the
\* catalogs of the original.
C1_DecodeOfEncodeIsModel ==
    (gen >= 1 /\ AllSupported(prev.catalogs))
        => /\ pc = "ready"
           /\ \A k \in 1..Len(CanonicalOrder) :
                  ContentOf(catalogs, tables, CanonicalOrder[k])
                      = ContentOf(prev.catalogs, prev.tables, CanonicalOrder[k])

\* C2: when an image that encode produced was decoded, the decode
\* succeeded and encoding the new model gives that image again, byte for
\* byte.
C2_EncodeOfDecodeIsImage ==
    gen >= 1 => /\ pc = "ready"
                /\ image # <<>> => image = prev.image

\* C3: when the bytes decoded held a catalog of an unknown code with fewer
\* than 100 bytes, the image encoded from the model holds a frame with that
\* code, that word count and that payload.
C3_UnknownCatalogReencoded ==
    (pc = "ready" /\ origin = "bin" /\ image # <<>>)
        => \A j \in 1..Len(SourceFrames) :
               (IsUnknownCode(SourceFrames[j].code) /\ Len(SourceFrames[j].payload) < 100)
                   => \E i \in 1..Len(ImageFrames) : ImageFrames[i] = SourceFrames[j]

\* The catalogs of unknown code a model holds, and the frames of unknown
\* code below 100 bytes, and of 100 bytes or more, that the bytes read hold.
UnknownCatalogs ==
    SelectSeq(catalogs, LAMBDA c : c.kind = "unknown_cat" /\ IsUnknownCode(c.cat_type))
SmallUnknownFrames ==
    SelectSeq(SourceFrames, LAMBDA f : IsUnknownCode(f.code) /\ 2 * f.count < 100)
LargeUnknownFrames ==
    SelectSeq(SourceFrames, LAMBDA f : IsUnknownCode(f.code) /\ 2 * f.count >= 100)

\* C4: the Unknown catalogs of a decoded model are the frames of unknown
\* code whose declared length is below 100 bytes, with their code and
\* bytes; a frame of 100 bytes or more leaves no catalog; and no image
\* encoded from the model holds a frame of a dropped frame's code.
C4_UnknownKeptIffBelow100 ==
    (pc = "ready" /\ origin = "bin")
        => /\ [i \in 1..Len(UnknownCatalogs) |->
                   <<UnknownCatalogs[i].cat_type, UnknownCatalogs[i].data>>]
                 = [j \in 1..Len(SmallUnknownFrames) |->
                       <<SmallUnknownFrames[j].code, SmallUnknownFrames[j].payload>>]
           /\ Len(catalogs) = Len(SourceFrames) - Len(LargeUnknownFrames)
           /\ \A i \in 1..Len(ImageFrames), j \in 1..Len(LargeUnknownFrames) :
                  ImageFrames[i].code # LargeUnknownFrames[j].code

\* C4's case: bytes with a frame of 98 bytes and one of 100 bytes of an
\* unknown code were decoded and the model encoded.
C4_Witness ==
    /\ pc = "ready" /\ origin = "bin" /\ image # <<>>
    /\ \E j \in 1..Len(SmallUnknownFrames) : Len(SmallUnknownFrames[j].payload) = 98
    /\ \E j \in 1..Len(LargeUnknownFrames) : Len(LargeUnknownFrames[j].payload) = 100
    /\ Len(UnknownCatalogs) = 1

\* The place of a supported category code in the fixed order.
Rank(code) == CHOOSE k \in 1..Len(CanonicalOrder) : CanonicalOrder[k] = code

\* The frames of the image that carry one of the seven supported codes.
SupportedFrames == SelectSeq(ImageFrames, LAMBDA f : f.code \in Range(CanonicalOrder))

\* The payloads, in stored order, of the model's catalogs of one code that
\* encode to something.
StoredPayloads(code) ==
    LET s == SelectSeq(catalogs,
                       LAMBDA c : c.cat_type = code /\ catalog_binWrite(c, tables) # <<>>)
    IN  [i \in 1..Len(s) |-> catalog_binWrite(s[i], tables)]

\* The payloads of the image's frames of one code, in the order of the image.
FramePayloads(code) ==
    LET s == SelectSeq(ImageFrames, LAMBDA f : f.code = code)
    IN  [i \in 1..Len(s) |-> s[i].payload]

\* C5: in an image just encoded, the frames of the supported categories
\* stand in the order strings, general, fmmu, syncmanager, txpdo, rxpdo,
\* dclock, and the frames of one category stand in the order in which the
\* model stores their catalogs.
C5_FixedCategoryOrder ==
    (pc = "ready" /\ image # <<>>)
        => /\ \A i, j \in 1..Len(SupportedFrames) :
                  i < j => Rank(SupportedFrames[i].code) <= Rank(SupportedFrames[j].code)
           /\ \A k \in 1..Len(CanonicalOrder) :
                  FramePayloads(CanonicalOrder[k]) = StoredPayloads(CanonicalOrder[k])

\* C5's case: a model that stores an RxPdo catalog before two TxPdo
\* catalogs was encoded, and the image holds the TxPdo frames first.
C5_Witness ==
    /\ pc = "ready" /\ image # <<>>
    /\ \E i, j, k \in 1..Len(catalogs) :
           /\ i < j /\ j < k
           /\ catalogs[i].cat_type = 51 /\ catalogs[j].cat_type = 50
           /\ catalogs[k].cat_type = 50
    /\ Len(FramePayloads(50)) = 2 /\ Len(FramePayloads(51)) = 1
    /\ FramePayloads(50)[1] # FramePayloads(50)[2]

\* C6: bytes 14-15 of an image just encoded hold the checksum of its bytes
\* 0-13, low byte first and high byte 0, whatever checksum the model held;
\* and a model decoded from such an image was read without the checksum
\* diagnostic and holds that checksum.
C6_ChecksumRecomputed ==
    /\ image # <<>> => /\ image[15] = csum(Slice(image, 0, 14))
                       /\ image[16] = 0
    /\ (gen >= 1 /\ pc = "ready")
           => /\ ~preamble.csum_error
              /\ preamble.checksum = prev.image[15] + 256 * prev.image[16]

\* C6's case: a model decoded from bytes whose checksum did not match was
\* encoded, and the image decoded.
C6_Witness ==
    /\ gen >= 1 /\ pc = "ready"
    /\ prev.origin = "bin" /\ prev.preamble.csum_error
    /\ preamble.checksum = csum(Slice(source, 0, 14))

\* C7: after any sequence of bytes, the checksum of the code equals the
\* reference CRC-8 that reduces modulo 256 after every shift, and lies in
\* 0..255.
C7_CrcEqualsReference == crc = ref /\ crc \in 0..255

\* C7's case: bytes were taken and the accumulator has its top bit set, so
\* that the rounds of the next byte leave the range before the reduction.
C7_Witness == crc = ref /\ crc \in 128..254

\* C8: once a value was interned, interning it again returns the same
\* index and leaves the table as it is, and the index resolves to the text.
C8_InternIdempotent ==
    interns > 0
        => /\ stringSet(tables[strings], arg) = ret
           /\ stringSetTable(tables[strings], arg) = tables[strings]
           /\ value2xmlText(tables[strings], ret) = TextOf(arg)

\* C8's case: the text interned last was in the table already, before
\* texts interned later.
C8_Witness ==
    /\ pc = "new" /\ interns >= 2
    /\ ~arg.int /\ arg.v # <<>>
    /\ ret >= 1 /\ ret + 1 < Len(tables[strings])

\* The table of a model built by the constructor or from a document has
\* the empty text first, interning the empty text gives 0, and no text
\* stands in it twice.
TableWellFormed ==
    /\ tables[strings][1] = <<>>
    /\ stringSet(tables[strings], TV(<<>>)) = 0
    /\ \A i, j \in 1..Len(tables[strings]) :
           tables[strings][i] = tables[strings][j] => i = j

\* No step takes a text out of the table or changes the text at an index.
TableAppendOnly ==
    /\ Len(tables'[strings']) >= Len(tables[strings])
    /\ \A i \in 1..Len(tables[strings]) : tables'[strings'][i] = tables[strings][i]

\* C9: through any sequence of interning calls on a model built from
\* nothing or from a document, the table keeps the empty text at index 0,
\* holds no text twice, and only grows at its end.
C9_TableInvariant == [](TableWellFormed) /\ [][TableAppendOnly]_vars

\* C9's case: several values were interned, the last of them the empty
\* text, which got index 0.
C9_Witness ==
    /\ interns >= 2 /\ Len(tables[strings]) >= 3
    /\ arg = TV(<<>>) /\ ret = 0

\* The number of bytes strings.binWrite builds before it pads.
UnpaddedLen(table) ==
    LET n[i \in 1..Len(table)] == IF i = 1 THEN 1 ELSE n[i - 1] + 1 + Len(table[i])
    IN  n[Len(table)]

\* C10: the payload of every String Table catalog and of every Fmmu
\* catalog of a model has an even number of bytes.
C10_EvenPayloads ==
    \A i \in 1..Len(catalogs) :
        catalogs[i].kind \in {"strings", "fmmu"}
            => Len(catalog_binWrite(catalogs[i], tables)) % 2 = 0

\* C10's case: a model with an odd number of Fmmu entries and a String
\* Table of an odd number of bytes was encoded.
C10_Witness ==
    /\ pc = "ready" /\ image # <<>>
    /\ \E i \in 1..Len(catalogs) :
           catalogs[i].kind = "fmmu" /\ Len(catalogs[i].entrys) % 2 = 1
    /\ \E i \in 1..Len(catalogs) :
           /\ catalogs[i].kind = "strings"
           /\ Len(tables[catalogs[i].strings]) >= 2
           /\ UnpaddedLen(tables[catalogs[i].strings]) % 2 = 1

\* The layout of a String Table with the texts table[2..]: the count, each
\* text behind its length, and the byte pad when that is an odd number of
\* bytes.
StringsLayout(table, pad) ==
    LET body == <<Len(table) - 1>>
                    \o Flatten([i \in 1..(Len(table) - 1) |->
                                    <<Len(table[i + 1])>> \o table[i + 1]])
    IN  IF Len(body) % 2 = 1 THEN Append(body, pad) ELSE body

\* The String Table catalogs of a model, and the String Table frames of
\* the bytes read, in their order.
StringsCatalogs(cats) == SelectSeq(cats, LAMBDA c : c.kind = "strings")
SourceStringsFrames == SelectSeq(SourceFrames, LAMBDA f : f.code = 10)

\* The pad byte of the k-th String Table catalog: the last byte of the
\* frame it was decoded from, 0 for a catalog built from a document.
PadOf(k) ==
    IF origin = "bin"
    THEN SourceStringsFrames[k].payload[Len(SourceStringsFrames[k].payload)]
    ELSE 0

\* C11: every String Table catalog of a model encodes to the count of its
\* texts, each text behind its one-byte length, and one pad byte (the one
\* read at decode, 0 for a catalog built from a document) when that is an
\* odd number of bytes; and the table decoded from an encoded image is the
\* empty text followed by those texts.
C11_StringsLayout ==
    /\ pc = "ready"
           => \A k \in 1..Len(StringsCatalogs(catalogs)) :
                  catalog_binWrite(StringsCatalogs(catalogs)[k], tables)
                      = StringsLayout(tables[StringsCatalogs(catalogs)[k].strings], PadOf(k))
    /\ (gen >= 1 /\ pc = "ready")
           => /\ Len(StringsCatalogs(catalogs)) = Len(StringsCatalogs(prev.catalogs))
              /\ \A k \in 1..Len(StringsCatalogs(catalogs)) :
                     tables[StringsCatalogs(catalogs)[k].strings]
                         = << <<>> >> \o Tail(prev.tables[StringsCatalogs(prev.catalogs)[k].strings])

\* C11's case: the table "", "foo", "bar" was decoded from a frame with a
\* pad byte that is not 0, encoded to ten bytes with that pad byte, and
\* decoded again.
C11_Witness ==
    /\ gen >= 1 /\ pc = "ready" /\ prev.origin = "bin"
    /\ \E k \in 1..Len(StringsCatalogs(catalogs)) :
           /\ tables[StringsCatalogs(catalogs)[k].strings] = << <<>>, T_foo, T_bar >>
           /\ catalog_binWrite(StringsCatalogs(catalogs)[k], tables)
                  = <<2, 3, 102, 111, 111, 3, 98, 97, 114, 255>>

\* The bytes up to and with the first category code, from the 0-based
\* place offset on, that is the end marker.
RECURSIVE UpToSentinel(_, _)
UpToSentinel(bytes, offset) ==
    IF offset + 4 > Len(bytes) THEN bytes
    ELSE IF bytes[offset + 1] + 256 * bytes[offset + 2] = 65535
    THEN Slice(bytes, 0, offset + 2)
    ELSE UpToSentinel(bytes, offset + 4 + 2 * (bytes[offset + 3] + 256 * bytes[offset + 4]))

\* C12: a model decoded from bytes holds the catalogs of the frames that
\* stand before the first frame whose code is the end marker 0xFFFF, and
\* no others: it is the model decoded from the bytes cut after that code.
C12_StopsAtSentinel ==
    (pc = "ready" /\ origin = "bin")
        => catalogs = Esi_binRead(UpToSentinel(source, HeaderSize)).catalogs

\* A frame of a code that has no catalog class and is not the end marker.
IsUnknownFrame(f) == cat_mapping(f.code) = "none" /\ f.code # 65535

\* The bytes from the 0-based place offset on without the frames of
\* unknown catalogs.
RECURSIVE DropUnknown(_, _)
DropUnknown(bytes, offset) ==
    IF offset + 4 > Len(bytes) THEN Slice(bytes, offset, Len(bytes))
    ELSE (IF IsUnknownFrame([code |-> bytes[offset + 1] + 256 * bytes[offset + 2]])
          THEN <<>>
          ELSE Slice(bytes, offset,
                     offset + 4 + 2 * (bytes[offset + 3] + 256 * bytes[offset + 4])))
         \o DropUnknown(bytes, offset + 4 + 2 * (bytes[offset + 3] + 256 * bytes[offset + 4]))

WithoutUnknown(bytes) == Slice(bytes, 0, HeaderSize) \o DropUnknown(bytes, HeaderSize)

\* The model read stands to the decode r of the bytes without the unknown
\* catalogs as it should: it failed if r failed, and else holds the
\* catalogs of r, with their values, between its Unknown catalogs.
SameKnownAs(r) ==
    /\ (pc = "ready") = r.ok
    /\ pc = "ready"
           => /\ SelectSeq(catalogs, LAMBDA c : c.kind # "unknown_cat") = r.catalogs
              /\ tables = r.tables
              /\ strings = r.strings
              /\ device_name = r.device_name
              /\ stdconfig = r.stdconfig

\* C13: a catalog of an unknown code, kept or dropped, is stepped over by
\* its declared length: the known catalogs that stand behind it are
\* decoded to the values they have when the unknown catalog is not there.
C13_UnknownSkipped ==
    (origin = "bin" /\ gen = 0) => SameKnownAs(Esi_binRead(WithoutUnknown(source)))

\* C13's case: a known catalog was decoded from behind an unknown catalog
\* that was kept, or from behind one of 100 bytes that was dropped.
C13_Witness ==
    /\ pc = "ready" /\ origin = "bin" /\ gen = 0
    /\ \E i, j \in 1..Len(SourceFrames) :
           /\ i < j
           /\ IsUnknownFrame(SourceFrames[i]) /\ ~IsUnknownFrame(SourceFrames[j])
           /\ Len(SourceFrames[i].payload) \in {98, 100}
           /\ SourceFrames[j].code # 65535
    /\ \E k \in 1..Len(catalogs) : catalogs[k].kind # "unknown_cat"

\* The bytes a model m with the string lists tbls encodes to.
EncodeOf(m, tbls) == Esi_binWrite(m.preamble, m.stdconfig, m.catalogs, tbls)

\* The documents whose model has the catalogs and the stdconfig of the
\* model at hand.
DocsOfModel ==
    {doc \in Docs : /\ Esi_xmlRead(doc, << <<>> >>, 1).catalogs = catalogs
                    /\ Esi_xmlRead(doc, << <<>> >>, 1).stdconfig = stdconfig}

\* C14: a model that was encoded encodes to the same bytes when it is
\* encoded again, and so does a second model built from the input the
\* model was built from.
C14_EncodeRepeatable ==
    (pc = "ready" /\ image # <<>>)
        => /\ Esi_binWrite(preamble, stdconfig, catalogs, tables) = image
           /\ (origin = "bin" /\ gen = 0)
                  => EncodeOf(Esi_binRead(source), Esi_binRead(source).tables) = image
           /\ origin = "xml"
                  => \A doc \in DocsOfModel :
                         EncodeOf(Esi_xmlRead(doc, << <<>> >>, 1),
                                  << Esi_xmlRead(doc, << <<>> >>, 1).table >>) = image

\* C14's case: a model built from a document with PDOs was encoded, and
\* the encode changed the checksum the model holds.
C14_Witness ==
    /\ pc = "ready" /\ image # <<>> /\ origin = "xml"
    /\ DocsOfModel # {}
    /\ Len(catalogs) >= 6
    /\ preamble.checksum # 0

\* The bytes with the checksum of their first 14 bytes at the places 14-15.
WithChecksum(bytes) ==
    Slice(bytes, 0, 14) \o <<csum(Slice(bytes, 0, 14)), 0>> \o Slice(bytes, 16, Len(bytes))

\* The fields of a preamble other than the checksum and the raw bytes.
PreambleFields(p) == [f \in DOMAIN p \ {"checksum", "csum_error", "bindata"} |-> p[f]]

\* The model read stands to the decode r of the bytes with a matching
\* checksum as it should: it was read if r was, with the preamble fields,
\* the stdconfig, the catalogs and the texts of r.
SameDecodeAs(r) ==
    /\ (pc = "ready") = r.ok
    /\ pc = "ready"
           => /\ PreambleFields(preamble) = PreambleFields(r.preamble)
              /\ stdconfig = r.stdconfig
              /\ catalogs = r.catalogs
              /\ tables = r.tables
              /\ strings = r.strings
              /\ device_name = r.device_name

\* C15: bytes whose stored checksum is not the checksum of their first 14
\* bytes are decoded as the bytes with the matching checksum are, and until
\* the model is encoded it holds the checksum the bytes store.
C15_ChecksumMismatchTolerated ==
    (origin = "bin" /\ gen = 0)
        => /\ SameDecodeAs(Esi_binRead(WithChecksum(source)))
           /\ (pc = "ready" /\ image = <<>>)
                  => /\ preamble.checksum = source[15] + 256 * source[16]
                     /\ preamble.csum_error
                            = (preamble.checksum # csum(Slice(source, 0, 14)))

\* C15's case: bytes with a mismatching checksum and two frames were
\* decoded, and the model was not encoded yet.
C15_Witness ==
    /\ pc = "ready" /\ origin = "bin" /\ gen = 0 /\ image = <<>>
    /\ source[15] # csum(Slice(source, 0, 14))
    /\ preamble.csum_error
    /\ Len(catalogs) = 2

\* A General frame declared with fewer than 32 bytes, or a DistributedClock
\* frame declared with fewer than 24.
IsShortRecord(f) ==
    \/ f.code = 30 /\ 2 * f.count < GeneralSize
    \/ f.code = 60 /\ 2 * f.count < 20 + fill_n

\* The frames of the bytes read that carry the code of a catalog class.
KnownSourceFrames == SelectSeq(SourceFrames, LAMBDA f : cat_mapping(f.code) # "none")

\* C16: bytes that hold every payload they declare, and among them a
\* General or DistributedClock record shorter than its fixed size, are
\* decoded without an abort, and the model holds a catalog for the short
\* record and for every known frame around it.
C16_ShortRecordNotFatal ==
    (/\ origin = "bin"
     /\ \A j \in 1..Len(SourceFrames) : Len(SourceFrames[j].payload) = 2 * SourceFrames[j].count
     /\ \E j \in 1..Len(SourceFrames) : IsShortRecord(SourceFrames[j]))
        => /\ pc = "ready"
           /\ [i \in 1..Len(KnownSourceFrames) |-> KnownSourceFrames[i].code]
                  = [i \in 1..Len(SelectSeq(catalogs, LAMBDA c : c.kind # "unknown_cat")) |->
                        SelectSeq(catalogs, LAMBDA c : c.kind # "unknown_cat")[i].cat_type]

\* The place in `tables` of the table in force when the i-th catalog was
\* decoded: that of the last String Table catalog before it, or the table
\* the model was constructed with.
TableAt(i) ==
    IF \E k \in 1..(i - 1) : catalogs[k].kind = "strings"
    THEN catalogs[CHOOSE k \in 1..(i - 1) :
                      /\ catalogs[k].kind = "strings"
                      /\ \A l \in (k + 1)..(i - 1) : catalogs[l].kind # "strings"].strings
    ELSE 1

\* The General catalog read last.
LastGeneral ==
    CHOOSE i \in 1..Len(catalogs) :
        /\ catalogs[i].kind = "general"
        /\ \A l \in (i + 1)..Len(catalogs) : catalogs[l].kind # "general"

\* The decimal digits of a number below 1000, as character codes.
Decimal(n) ==
    IF n < 10 THEN <<48 + n>>
    ELSE IF n < 100 THEN <<48 + (n \div 10), 48 + (n % 10)>>
    ELSE <<48 + (n \div 100), 48 + ((n \div 10) % 10), 48 + (n % 10)>>

\* C17: the device name of a model is the text its General catalog's name
\* index has in the string table when the index is below the length of the
\* table, and the decimal digits of the index otherwise.
C17_IndexFallback ==
    (pc = "ready" /\ \E i \in 1..Len(catalogs) : catalogs[i].kind = "general")
        => device_name =
               IF catalogs[LastGeneral].nameindex
                      < Len(tables[IF origin = "bin" THEN TableAt(LastGeneral) ELSE strings])
               THEN tables[IF origin = "bin" THEN TableAt(LastGeneral) ELSE strings]
                          [catalogs[LastGeneral].nameindex + 1]
               ELSE Decimal(catalogs[LastGeneral].nameindex)

\* C17's case: a General catalog with the name index 1 was decoded where
\* the table held the empty text only, and the device name is "1".
C17_Witness ==
    /\ pc = "ready" /\ origin = "bin"
    /\ \E i \in 1..Len(catalogs) : catalogs[i].kind = "general"
    /\ catalogs[LastGeneral].nameindex = 1
    /\ Len(tables[TableAt(LastGeneral)]) = 1
    /\ device_name = <<49>>

\* The catalogs Esi.binWrite visits whose payload is not empty.
EmittedCatalogs == SelectSeq(writeOrder(catalogs),
                             LAMBDA c : catalog_binWrite(c, tables) # <<>>)

\* C18: no frame of an image just encoded has the word count 0, and the
\* image holds one frame for each catalog whose payload is not empty and
\* nothing for the others.
C18_NoEmptyFrame ==
    (pc = "ready" /\ image # <<>>)
        => /\ \A i \in 1..Len(ImageFrames) : ImageFrames[i].count > 0
           /\ Len(image) = HeaderSize + 2
                  + 4 * Len(EmittedCatalogs)
                  + Len(Flatten([i \in 1..Len(EmittedCatalogs) |->
                                    catalog_binWrite(EmittedCatalogs[i], tables)]))

\* C19: an image just encoded is the 16 bytes of the preamble, the 112
\* bytes of the stdconfig, from byte 128 on the frames of the catalogs, and
\* the two bytes 0xFF 0xFF at its end; it has 130 bytes when the model has
\* no catalog with a payload.
C19_ImageLayout ==
    (pc = "ready" /\ image # <<>>)
        => /\ Len(image) >= 130
           /\ Slice(image, 0, 16) = preamble_binWrite(preamble)
           /\ Slice(image, 16, 128) = stdconfig_binWrite(stdconfig)
           /\ Slice(image, 128, Len(image) - 2)
                  = Flatten([i \in 1..Len(EmittedCatalogs) |->
                                <<EmittedCatalogs[i].cat_type % 256,
                                  EmittedCatalogs[i].cat_type \div 256,
                                  (Len(catalog_binWrite(EmittedCatalogs[i], tables)) \div 2) % 256,
                                  (Len(catalog_binWrite(EmittedCatalogs[i], tables)) \div 2) \div 256>>
                                    \o catalog_binWrite(EmittedCatalogs[i], tables)])
           /\ Slice(image, Len(image) - 2, Len(image)) = <<255, 255>>
           /\ (\A i \in 1..Len(catalogs) : catalog_binWrite(catalogs[i], tables) = <<>>)
                  => Len(image) = 130

\* C19's case: a model decoded from bytes without frames was encoded, to
\* 130 bytes.
C19_Witness ==
    /\ pc = "ready" /\ origin = "bin" /\ image # <<>>
    /\ catalogs = <<>>
    /\ Len(image) = 130

\* C20: every frame of an image just encoded carries one of the codes 10,
\* 30, 40, 41, 50, 51, 60: a catalog decoded from a frame of the code 0 or
\* 20 leaves no frame in it.
C20_OnlySupportedCodes ==
    (pc = "ready" /\ image # <<>>)
        => \A i \in 1..Len(ImageFrames) : ImageFrames[i].code \in Range(CanonicalOrder)

\* The code the enumeration of data types gives a name: the code of the
\* name, that of UINT for the three aliases, 0 for any other name.
CodeOf(name) ==
    IF name \in {"UINT16", "UINT8", "UINT32"} THEN 6
    ELSE IF \E i \in 1..Len(datatypes) : datatypes[i][2] = name
    THEN datatypes[CHOOSE i \in 1..Len(datatypes) : datatypes[i][2] = name][1]
    ELSE 0

\* C21: the data type a document import stores for a DataType text is the
\* code of that name in the enumeration, 6 for UINT16, UINT8 and UINT32,
\* and 0 for a name the enumeration does not hold.
C21_DatatypeCode == interns > 0 => ret = CodeOf(arg)

\* The Pdo catalogs of the model.
PdoCatalogs == SelectSeq(catalogs, LAMBDA c : c.kind \in {"txpdo", "rxpdo"})

\* C22: the table of a decoded model is the table of the String Table
\* catalog of the bytes, and every Pdo catalog and every PdoEntry in it
\* resolves its string index to the text the index has in that table,
\* wherever the String Table frame stands.
C22_SharedTableResolves ==
    (pc = "ready" /\ origin = "bin" /\ Len(StringsCatalogs(catalogs)) = 1)
        => /\ strings = StringsCatalogs(catalogs)[1].strings
           /\ \A k \in 1..Len(PdoCatalogs) :
                  /\ pdo_name(PdoCatalogs[k], tables, strings)
                         = value2xmlText(tables[StringsCatalogs(catalogs)[1].strings],
                                         PdoCatalogs[k].name_index)
                  /\ \A i \in 1..Len(PdoCatalogs[k].entrys) :
                         pdo_entry_name(PdoCatalogs[k], PdoCatalogs[k].entrys[i], tables)
                             = value2xmlText(tables[StringsCatalogs(catalogs)[1].strings],
                                             PdoCatalogs[k].entrys[i].string_index)

\* The catalogs of the seven supported types that Esi.binWrite emits.
EmittedSupported == SelectSeq(EmittedCatalogs, LAMBDA c : c.cat_type \in Range(CanonicalOrder))

\* C23: the payload of every catalog of a supported type that a model
\* emits has an even number of bytes, twice the word count of its frame,
\* and the frames of an image just encoded are found one behind the other
\* by their word counts.
C23_PayloadTwiceWordCount ==
    /\ pc = "ready"
           => \A i \in 1..Len(EmittedSupported) :
                  2 * (Len(catalog_binWrite(EmittedSupported[i], tables)) \div 2)
                      = Len(catalog_binWrite(EmittedSupported[i], tables))
    /\ (pc = "ready" /\ image # <<>> /\ EmittedSupported = EmittedCatalogs)
           => [i \in 1..Len(ImageFrames) |-> ImageFrames[i].payload]
                  = [i \in 1..Len(EmittedCatalogs) |->
                        catalog_binWrite(EmittedCatalogs[i], tables)]

\* The model the loop left is the model Esi.binRead builds in one step.
LoopAgrees ==
    (pc \in {"ready", "failed"} /\ origin = "bin" /\ gen = 0 /\ image = <<>>)
        => /\ (pc = "ready") = Esi_binRead(source).ok
           /\ pc = "ready" => /\ catalogs = Esi_binRead(source).catalogs
                               /\ tables = Esi_binRead(source).tables
                               /\ strings = Esi_binRead(source).strings

\* Every pass moves the cursor on by 4 bytes at least.
LoopAdvances == (pc = "loop" /\ pc' = "loop") => esi_offset' >= esi_offset + 4

RecordBytes(f) == IF f.code = 41 THEN Len(f.payload) ELSE Len(f.payload) - PdoHeaderSize

\* C25: bytes whose frames are whole SyncManager, TxPdo and RxPdo frames
\* (a Pdo payload holding its header at least) are decoded without a
\* failure, and each catalog holds floor(R / 8) sub-records: none for a
\* Pdo payload of the header alone.
C25_WholeSubRecordsOnly ==
    (/\ origin = "bin" /\ pc \in {"ready", "failed"}
     /\ Len(SourceFrames) >= 1
     /\ \A j \in 1..Len(SourceFrames) :
            /\ SourceFrames[j].code \in {41, 50, 51}
            /\ Len(SourceFrames[j].payload) = 2 * SourceFrames[j].count
            /\ RecordBytes(SourceFrames[j]) >= 0)
        => /\ pc = "ready"
           /\ Len(catalogs) = Len(SourceFrames)
           /\ \A j \in 1..Len(SourceFrames) :
                  Len(catalogs[j].entrys) = RecordBytes(SourceFrames[j]) \div 8

PdoSourceFrames == SelectSeq(SourceFrames, LAMBDA f : f.code \in {50, 51})

FmmuCatalogs == SelectSeq(catalogs, LAMBDA c : c.kind = "fmmu")

\* The usage codes of the entries of an Fmmu catalog.
Usages(f) == [i \in 1..Len(f.entrys) |-> f.entrys[i].usage]

\* C27: an Fmmu catalog of an odd number of entries comes back from its
\* encoded payload with the entries it had: the pad byte of the payload
\* is no entry of the decoded catalog.
C27_FmmuPadNotDecoded ==
    pc = "ready"
        => \A k \in 1..Len(FmmuCatalogs) :
               Len(FmmuCatalogs[k].entrys) % 2 = 1
                   => /\ fmmu_binRead(fmmu_binWrite(FmmuCatalogs[k]), FmmuCatalogs[k].strings).ok
                      /\ Usages(fmmu_binRead(fmmu_binWrite(FmmuCatalogs[k]),
                                             FmmuCatalogs[k].strings).obj)
                             = Usages(FmmuCatalogs[k])

\* The fields of the model: all that Esi.binWrite and Esi.xmlWrite read.
modelFields == <<preamble, stdconfig, catalogs, strings, tables, device_name>>

\* C28: the diagnostic leaves every field of the model as it found it, the
\* checksum the preamble holds from a decode of bytes with a wrong checksum
\* among them, and an encode after it gives the bytes an encode in its
\* place would have given.
C28_InfoChangesNothing ==
    [][(\E debug \in Debugs : Info(debug))
           => /\ modelFields' = modelFields
              /\ Esi_binWrite(preamble', stdconfig', catalogs', tables')
                     = Esi_binWrite(preamble, stdconfig, catalogs, tables)]_vars

\* C29: the diagnostic never fails: with debug output on, or on a decoded
\* record whose re-encoding differs from its raw bytes, it returns a report.
C29_InfoNeverFails ==
    [][(\E debug \in Debugs : Info(debug)) => (ret' # Err /\ pc' = "ready")]_vars

\* The ports list general.xmlRead builds from a Physics attribute.
ImportedPorts(physics) == [cn \in 1..PortCount |-> PhysicsPort(physics, cn - 1)]

\* C30: export takes port 0 from the nibble import put it in, and so for
\* the other ports (the ports general.Info shows), and the Physics
\* attribute exported from the import of a document is the attribute of
\* that document, for every attribute of 1 to 4 characters over Y and K.
C30_PhysicsRoundTrip ==
    pc = "exported"
        => \A doc \in PhysicsDocs :
               TheGeneral = Esi_xmlRead(doc, << <<>> >>, 1).catalogs[2]
                   => /\ general_Info_ports(TheGeneral) = ImportedPorts(doc.physics)
                      /\ general_xmlWrite_ports(TheGeneral) = ImportedPorts(doc.physics)
                      /\ ret = doc.physics

====
